---- MODULE Spec2Model ----
(***************************************************************************)
(* Model of the M&A news extraction pipeline: the normalizer               *)
(* (clean_and_structure_data), the per-request retry loop (_make_request), *)
(* the multi-source orchestrator (run_all_sequential, run_all_parallel,    *)
(* run_extraction) and the session/lightweight backend selection of        *)
(* ValorEconomicoScraper.                                                   *)
(*                                                                         *)
(* Text is modelled as a sequence of characters (one-character strings;    *)
(* "a_tilde" and "c_cedilla" stand for the two non-ASCII letters used).    *)
(* Python's None is the value None.                                        *)
(***************************************************************************)
EXTENDS Integers, Sequences, FiniteSets, TLC

VARIABLES
    n_raw,      \* normalizer: the raw merged record list handed in (df)
    n_df,       \* normalizer: the list the caller holds after the last call
    n_first,    \* normalizer: the list returned by the first call
    n_calls,    \* normalizer: number of clean_and_structure_data calls made
    n_now,      \* normalizer: wall clock read by datetime.now(), in seconds
    n_class,    \* normalizer: the extractor class whose method is called
    n_arg,      \* normalizer: the caller's DataFrame after it was passed to the last call
    rq_max_retries, \* request: the max_retries argument of _make_request
    rq_backoff,     \* request: the backoff_factor argument, <<numerator, denominator>>
    rq_attempt,     \* request: the loop variable attempt (0-based)
    rq_status,      \* request: "idle", "running", "returned" (a response) or "failed" (None)
    rq_log,         \* request: the outcome of each attempt made, in order
    rq_waits,       \* request: the backoff sleeps made, in order, as <<numerator, denominator>> seconds
    rq_pacing,      \* request: number of random 1-3 s sleeps made before an attempt
    px_entry,       \* pipeline: who calls run_extraction: app.py or a direct caller
    px_built,       \* pipeline: number of scraper objects constructed in this run
    px_base,        \* pipeline: px_built when the current cycle began
    px_workers,     \* pipeline: the tasks submitted to the executor of this cycle
    px_max_retries, \* pipeline: the max_retries argument of run_extraction
    px_parallel,    \* pipeline: the parallel argument of run_extraction
    px_creds,       \* pipeline: VALOR_EMAIL and VALOR_PASSWORD are both set
    px_pc,          \* pipeline: "off", "idle", "cycle" (inside run_all_*) or "done"
    px_attempt,     \* pipeline: the loop variable attempt of run_extraction
    px_ran,         \* pipeline: adapters whose run_* call of this cycle has returned
    px_raised,      \* pipeline: adapters whose scraper raised in this cycle
    px_produced,    \* pipeline: what each adapter's scraper returned in this cycle
    px_results,     \* pipeline: the non-empty DataFrames collected, in merge order
    px_terminated,  \* pipeline: the workers of this cycle whose function has returned
    px_outcome,     \* pipeline: what each adapter call of this cycle came to
    px_errors,      \* pipeline: the adapter failures logged in this cycle
    px_merged,      \* pipeline: the merged DataFrame of the last finished cycle
    px_hist,        \* pipeline: the outcome of each finished cycle, in order
    px_events,      \* pipeline: number of "no data in attempt i/n" warnings logged
    px_sleeps,      \* pipeline: the sleeps run_extraction made between cycles, in order
    px_batch,       \* pipeline: the clean_df values handed to save_to_excel, in order
    px_result,      \* pipeline: what run_extraction returned: "file" or None
    v_pc,           \* valor: "new" before __init__ has run, "live" after it
    v_fallback,     \* valor: use_requests_fallback
    v_creds,        \* valor: VALOR_EMAIL and VALOR_PASSWORD are both set
    v_browser,      \* valor: whether Chrome and its driver can start on this host
    v_driver,       \* valor: self.driver, None or "driver"
    v_quit,         \* valor: driver.quit() has been called
    v_session,      \* valor: the instance has its requests session
    v_init_calls,   \* valor: number of calls of _init_selenium
    v_init_failed,  \* valor: __init__ caught an exception of _init_selenium
    v_log,          \* valor: the requests sent, as [op, backend], in order
    v_ret,          \* valor: what the last public method returned
    rs_kind,        \* run_scraper: which scraper class runs
    rs_driver,      \* run_scraper: the browser of the scraper: "none", "live" or "quit"
    rs_urls,        \* run_scraper: news_urls, what search_news returned
    rs_i,           \* run_scraper: position of the for loop in news_urls
    rs_all_data,    \* run_scraper: all_data, the urls whose record was appended
    rs_exhausted,   \* run_scraper: the urls whose detail request used all its attempts
    rs_pc,          \* run_scraper: "off", "idle", "loop" or "returned"
    rs_df,          \* run_scraper: the DataFrame returned, as the urls of its rows
    rs_raised,      \* run_scraper: "no", "caught" (by run_scraper) or "propagated"
    sn_adapter,     \* search_news: which search_news runs
    sn_site,        \* search_news: the result pages of the site, each a list of items
    sn_max_pages,   \* search_news: the max_pages argument
    sn_page,        \* search_news: number of result pages fetched
    sn_urls,        \* search_news: all_news_urls, as <<page, position>> of the items
    sn_pub_date,    \* search_news: the local pub_date: "unbound", "none", "new" or "old"
    sn_pc,          \* search_news: "off", "scan", "google" or "done"
    sn_stop,        \* search_news: why paging ended: "no", "limit", "empty", "error", "max"
    sn_google,      \* search_news: the items Google lists for the site, by their true age
    d_day,          \* standardize_date: the day of the date text it is given
    d_month,        \* standardize_date: the month name of the date text
    d_year,         \* standardize_date: the year of the date text
    d_out,          \* standardize_date: <<>> before the call, <<value returned>> after
    a_pc,           \* app: where each thread is in run_scheduled_extraction / run_extraction
    a_kind,         \* app: what each thread runs: "sched" or "manual"
    a_in_progress,  \* app: the global extraction_in_progress
    a_history,      \* app: the global extraction_history, as the ids of its entries
    a_file,         \* app: the entries of extraction_history.json
    a_rec,          \* app: the entry each thread has built (0: none)
    a_triggers,     \* app: scheduled triggers and /run-extraction requests so far
    a_completed,    \* app: entries of the extractions that produced a file and ended
    a_ends,         \* app: the ways extractions have ended so far
    a_loads         \* app: whether the index page has been loaded

normVars == <<n_raw, n_df, n_first, n_calls, n_now, n_class, n_arg>>

reqVars == <<rq_max_retries, rq_backoff, rq_attempt, rq_status, rq_log, rq_waits,
             rq_pacing>>

pipeArgs == <<px_entry, px_max_retries, px_parallel, px_creds>>

pipeVars == <<pipeArgs, px_built, px_base, px_workers, px_pc, px_attempt, px_ran,
              px_raised, px_produced, px_results, px_terminated, px_outcome,
              px_errors, px_merged, px_hist, px_events, px_sleeps, px_batch,
              px_result>>

valVars == <<v_pc, v_fallback, v_creds, v_browser, v_driver, v_quit, v_session,
             v_init_calls, v_init_failed, v_log, v_ret>>

runVars == <<rs_kind, rs_driver, rs_urls, rs_i, rs_all_data, rs_exhausted, rs_pc,
             rs_df, rs_raised>>

searchVars == <<sn_adapter, sn_site, sn_max_pages, sn_page, sn_urls, sn_pub_date,
                sn_pc, sn_stop, sn_google>>

dateVars == <<d_day, d_month, d_year, d_out>>

appVars == <<a_pc, a_kind, a_in_progress, a_history, a_file, a_rec, a_triggers,
             a_completed, a_ends, a_loads>>

vars == <<normVars, reqVars, pipeVars, valVars, runVars, searchVars, dateVars,
          appVars>>

None == "None"

-----------------------------------------------------------------------------
(* Characters and their order (Python compares str by code point).         *)

Digits == {"0", "1", "2", "3", "4", "5", "6", "7", "8", "9"}

UpperLetters ==
    <<"A", "B", "C", "D", "E", "F", "G", "H", "I", "J", "K", "L", "M",
      "N", "O", "P", "Q", "R", "S", "T", "U", "V", "W", "X", "Y", "Z">>

LowerLetters ==
    <<"a", "b", "c", "d", "e", "f", "g", "h", "i", "j", "k", "l", "m",
      "n", "o", "p", "q", "r", "s", "t", "u", "v", "w", "x", "y", "z">>

\* The characters of the model in increasing code point order.
Alphabet ==
    <<" ", "-", ".", "/">>
    \o <<"0", "1", "2", "3", "4", "5", "6", "7", "8", "9">>
    \o UpperLetters \o LowerLetters \o <<"a_tilde", "c_cedilla">>

Code(c) == CHOOSE i \in 1..Len(Alphabet) : Alphabet[i] = c

IsDigit(c) == c \in Digits

\* \w of the re module: letters, digits (underscore is not in the alphabet).
IsWordChar(c) ==
    \/ c \in Digits
    \/ \E i \in 1..Len(UpperLetters) : UpperLetters[i] = c
    \/ \E i \in 1..Len(LowerLetters) : LowerLetters[i] = c
    \/ c \in {"a_tilde", "c_cedilla"}

IsSeparator(c) == c \in {"/", "-", "."}

\* str.lower() on one character.
LowerChar(c) ==
    IF \E i \in 1..Len(UpperLetters) : UpperLetters[i] = c
    THEN LowerLetters[CHOOSE i \in 1..Len(UpperLetters) : UpperLetters[i] = c]
    ELSE c

Lower(s) == [i \in 1..Len(s) |-> LowerChar(s[i])]

\* str.zfill(2)
ZFill2(s) == IF Len(s) < 2 THEN <<"0">> \o s ELSE s

AllDigits(s, from, n) == \A k \in from..(from + n - 1) : IsDigit(s[k])

AllWordChars(s, from, n) == \A k \in from..(from + n - 1) : IsWordChar(s[k])

\* Python's < on two str values: lexicographic by code point.
RECURSIVE StrLess(_, _)
StrLess(a, b) ==
    IF b = <<>> THEN FALSE
    ELSE IF a = <<>> THEN TRUE
    ELSE IF Code(Head(a)) < Code(Head(b)) THEN TRUE
    ELSE IF Code(Head(a)) > Code(Head(b)) THEN FALSE
    ELSE StrLess(Tail(a), Tail(b))

-----------------------------------------------------------------------------
(* standardize_date                                                        *)

DataNaoEncontrada ==
    <<"D", "a", "t", "a", " ", "n", "a_tilde", "o", " ",
      "e", "n", "c", "o", "n", "t", "r", "a", "d", "a">>

DeSep == <<" ", "d", "e", " ">>

\* month_map of standardize_date: the 12 month names and their numbers.
month_map ==
    << <<"j", "a", "n", "e", "i", "r", "o">>,
       <<"f", "e", "v", "e", "r", "e", "i", "r", "o">>,
       <<"m", "a", "r", "c_cedilla", "o">>,
       <<"a", "b", "r", "i", "l">>,
       <<"m", "a", "i", "o">>,
       <<"j", "u", "n", "h", "o">>,
       <<"j", "u", "l", "h", "o">>,
       <<"a", "g", "o", "s", "t", "o">>,
       <<"s", "e", "t", "e", "m", "b", "r", "o">>,
       <<"o", "u", "t", "u", "b", "r", "o">>,
       <<"n", "o", "v", "e", "m", "b", "r", "o">>,
       <<"d", "e", "z", "e", "m", "b", "r", "o">> >>

MonthNumbers ==
    << <<"0", "1">>, <<"0", "2">>, <<"0", "3">>, <<"0", "4">>,
       <<"0", "5">>, <<"0", "6">>, <<"0", "7">>, <<"0", "8">>,
       <<"0", "9">>, <<"1", "0">>, <<"1", "1">>, <<"1", "2">> >>

\* month_map.get(name, '01')
MonthMapGet(name) ==
    IF \E i \in 1..12 : month_map[i] = name
    THEN MonthNumbers[CHOOSE i \in 1..12 : month_map[i] = name]
    ELSE <<"0", "1">>

\* The ways (\d{1,2})[/\-\.](\d{1,2})[/\-\.](\d{2,4}) matches inside s:
\* <<start, len(day), len(month), len(year)>>.
NumericMatches(s) ==
    { m \in {i \in 1..Len(s) : IsDigit(s[i])} \X (1..2) \X (1..2) \X (2..4) :
        /\ m[1] + m[2] + m[3] + m[4] + 1 <= Len(s)
        /\ AllDigits(s, m[1], m[2])
        /\ IsSeparator(s[m[1] + m[2]])
        /\ AllDigits(s, m[1] + m[2] + 1, m[3])
        /\ IsSeparator(s[m[1] + m[2] + 1 + m[3]])
        /\ AllDigits(s, m[1] + m[2] + m[3] + 2, m[4]) }

\* re.search: the leftmost match, each group greedy in turn.
Preferred(m, o) ==
    \/ m[1] < o[1]
    \/ m[1] = o[1] /\ m[2] > o[2]
    \/ m[1] = o[1] /\ m[2] = o[2] /\ m[3] > o[3]
    \/ m[1] = o[1] /\ m[2] = o[2] /\ m[3] = o[3] /\ m[4] >= o[4]

NumericSearch(s) ==
    CHOOSE m \in NumericMatches(s) : \A o \in NumericMatches(s) : Preferred(m, o)

\* The ways (\d+) de (\w+) de (\d{4}) matches inside s:
\* <<start, len(day), len(month name)>>.
LongMatches(s) ==
    { m \in {i \in 1..Len(s) : IsDigit(s[i])} \X (1..Len(s)) \X (1..Len(s)) :
        /\ m[1] + m[2] + m[3] + 11 <= Len(s)
        /\ AllDigits(s, m[1], m[2])
        /\ SubSeq(s, m[1] + m[2], m[1] + m[2] + 3) = DeSep
        /\ AllWordChars(s, m[1] + m[2] + 4, m[3])
        /\ SubSeq(s, m[1] + m[2] + m[3] + 4, m[1] + m[2] + m[3] + 7) = DeSep
        /\ AllDigits(s, m[1] + m[2] + m[3] + 8, 4) }

\* re.findall(...)[0]: the leftmost match, \d+ and \w+ greedy.
LongSearch(s) ==
    CHOOSE m \in LongMatches(s) :
        \A o \in LongMatches(s) :
            \/ m[1] < o[1]
            \/ m[1] = o[1] /\ m[2] > o[2]
            \/ m[1] = o[1] /\ m[2] = o[2] /\ m[3] >= o[3]

\* The D/M/Y branch: zero-filled day and month, a 2-digit year promoted to 20YY.
NumericResult(s) ==
    LET m     == NumericSearch(s)
        day   == SubSeq(s, m[1], m[1] + m[2] - 1)
        month == SubSeq(s, m[1] + m[2] + 1, m[1] + m[2] + m[3])
        yr    == SubSeq(s, m[1] + m[2] + m[3] + 2, m[1] + m[2] + m[3] + m[4] + 1)
        year  == IF Len(yr) = 2 THEN <<"2", "0">> \o yr ELSE yr
    IN  ZFill2(day) \o <<"/">> \o ZFill2(month) \o <<"/">> \o year

\* The "D de <month> de YYYY" branch.
LongResult(s) ==
    LET m     == LongSearch(s)
        day   == SubSeq(s, m[1], m[1] + m[2] - 1)
        name  == SubSeq(s, m[1] + m[2] + 4, m[1] + m[2] + m[3] + 3)
        year  == SubSeq(s, m[1] + m[2] + m[3] + 8, m[1] + m[2] + m[3] + 11)
    IN  ZFill2(day) \o <<"/">> \o MonthMapGet(Lower(name)) \o <<"/">> \o year

\* What the function returns for a text in neither form.
Unrecognized(date_str) == date_str

standardize_date(date_str) ==
    IF date_str = None \/ date_str = <<>> \/ date_str = DataNaoEncontrada
    THEN None
    ELSE IF NumericMatches(date_str) # {} THEN NumericResult(date_str)
    ELSE IF LongMatches(date_str) # {} THEN LongResult(date_str)
    ELSE Unrecognized(date_str)

-----------------------------------------------------------------------------
(* The normalizer: clean_and_structure_data                                *)

MaxRecords == 2         \* longest raw merged list
MaxClock == 1           \* the clock runs over 0..MaxClock
MaxCleanCalls == 2      \* calls of clean_and_structure_data in one behaviour

NaoInformado == "Nao informado"

Urls == {"u1", "u2"}

Sources == {"Pipeline Valor", "Valor Economico", "Fusoes e Aquisicoes"}

\* The 'date' texts an adapter can put in a record.
NumericDate == <<"0", "2", "/", "0", "1", "/", "2", "0", "2", "4">>

LongDate ==
    <<"2", " ", "d", "e", " ", "j", "a", "n", "e", "i", "r", "o",
      " ", "d", "e", " ", "2", "0", "2", "4">>

OlderDate == <<"3", "1", "/", "0", "1", "/", "2", "0", "2", "3">>

ShortYearDate == <<"1", "5", "/", "3", "/", "2", "4">>

NotADate == <<"n", "o", "t", " ", "a", " ", "d", "a", "t", "e">>

DateTexts ==
    { NumericDate, LongDate, OlderDate, ShortYearDate, NotADate, DataNaoEncontrada }

\* The transaction fields extract_news_data fills, or leaves None.
NoDetails == [buyer |-> None, acquired |-> None, value |-> None, multiple |-> None]

SomeDetails ==
    [buyer |-> "Acme", acquired |-> "Beta", value |-> "R$ 10 milhoes",
     multiple |-> None]

Details == { NoDetails, SomeDetails }

\* The articles of the model: what extract_news_data read on each page.
Articles ==
    { [date |-> NumericDate, det |-> SomeDetails],
      [date |-> LongDate, det |-> NoDetails],
      [date |-> OlderDate, det |-> SomeDetails],
      [date |-> ShortYearDate, det |-> NoDetails],
      [date |-> NotADate, det |-> SomeDetails],
      [date |-> DataNaoEncontrada, det |-> NoDetails] }

\* The extraction_date of a row that has no such column: the scrapers' records
\* have none, and only MAExtractorOptimized adds it.
NoStamp == 0 - 1

\* One row of the merged DataFrame, before normalization.
RawRecord(url, date, det, source) ==
    [url |-> url, date |-> date, buyer |-> det.buyer, acquired |-> det.acquired,
     value |-> det.value, multiple |-> det.multiple, source |-> source,
     date_standardized |-> None, extraction_date |-> NoStamp]

\* Every article under every url as the first source reports it, and one
\* article under every url as each source reports it.
RawRecords ==
    { RawRecord(u, a.date, a.det, "Pipeline Valor") : u \in Urls, a \in Articles }
        \cup { RawRecord(u, NumericDate, SomeDetails, s) : u \in Urls, s \in Sources }

RawLists == UNION { [1..n -> RawRecords] : n \in 0..MaxRecords }

\* The rows of df at the increasing indexes of keep.
RECURSIVE Rows(_, _, _)
Rows(df, keep, i) ==
    IF i > Len(df) THEN <<>>
    ELSE IF i \in keep THEN <<df[i]>> \o Rows(df, keep, i + 1)
    ELSE Rows(df, keep, i + 1)

\* A deduplication that keeps the last occurrence of a url instead of the first.
DropDuplicatesKeepLast(df) ==
    Rows(df, {i \in 1..Len(df) :
                \A j \in (i + 1)..Len(df) : df[j].url # df[i].url}, 1)

\* drop_duplicates(subset=['url']): keep='first'.
DropDuplicates(df) ==
    Rows(df, {i \in 1..Len(df) : \A j \in 1..(i - 1) : df[j].url # df[i].url}, 1)

\* A standardization that drops the rows it finds no date for.
ApplyStandardizeDateDropNa(df) ==
    Rows([i \in 1..Len(df) |->
            [df[i] EXCEPT !.date_standardized = standardize_date(df[i].date)]],
         {i \in 1..Len(df) : standardize_date(df[i].date) # None}, 1)

\* clean_df['date_standardized'] = clean_df['date'].apply(standardize_date)
ApplyStandardizeDate(df) ==
    [i \in 1..Len(df) |->
        [df[i] EXCEPT !.date_standardized = standardize_date(df[i].date)]]

\* A fillna that fills nothing.
FillNothing(v) == v

\* fillna on one value: None becomes the sentinel.
FillOne(v) == IF v = None THEN NaoInformado ELSE v

\* fillna("Nao informado") on buyer, acquired, value, multiple.
FillNa(df) ==
    [i \in 1..Len(df) |->
        [df[i] EXCEPT !.buyer = FillOne(@), !.acquired = FillOne(@),
                      !.value = FillOne(@), !.multiple = FillOne(@)]]

\* The order sort_values(ascending=False) puts two keys in: None last, the
\* others by descending str comparison.
MayPrecede(a, b) ==
    IF a = None THEN b = None
    ELSE IF b = None THEN TRUE
    ELSE ~StrLess(a, b)

Orderings(n) ==
    { p \in [1..n -> 1..n] : \A i, j \in 1..n : i # j => p[i] # p[j] }

\* What the sort keeps of the order the rows came in: the rows without a key
\* are set aside and appended in their order; the others go through
\* kind='quicksort', which is not a stable sort.
KeepsOrder(df, q) ==
    \A i, j \in 1..Len(df) :
        (i < j /\ df[q[i]].date_standardized = None
               /\ df[q[j]].date_standardized = None)
            => q[i] < q[j]

\* sort_values(by='date_standardized', ascending=False) with the default
\* kind: every arrangement that is in order and keeps what the sort keeps is
\* a possible result.
SortValues(df) ==
    { [i \in 1..Len(df) |-> df[p[i]]] : p \in
        { q \in Orderings(Len(df)) :
            /\ \A i \in 1..(Len(df) - 1) :
                  MayPrecede(df[q[i]].date_standardized,
                             df[q[i + 1]].date_standardized)
            /\ KeepsOrder(df, q) } }

\* clean_df['extraction_date'] = datetime.now().strftime(...)
StampExtraction(df, now) ==
    [i \in 1..Len(df) |-> [df[i] EXCEPT !.extraction_date = now]]

\* The lists MAExtractor.clean_and_structure_data (ma_extractor.py) can return
\* for df: it ends with the sort and adds no extraction_date.
clean_and_structure_data_plain(df) ==
    IF df = <<>> THEN {df}
    ELSE SortValues(FillNa(ApplyStandardizeDate(DropDuplicates(df))))

\* The lists MAExtractorOptimized.clean_and_structure_data can return for df
\* when the clock reads now.
clean_and_structure_data(df, now) ==
    IF df = <<>> THEN {df}
    ELSE { StampExtraction(s, now) :
             s \in SortValues(FillNa(ApplyStandardizeDate(DropDuplicates(df)))) }

\* An assignment clean_df = df: the caller's object under another name.
copy_aliased(df) == [object |-> "df", rows |-> df]

\* clean_df = df.copy(): a new object that holds the rows of df.
copy(df) == [object |-> "clean_df", rows |-> df]

\* The rows of the caller's DataFrame after the call: drop_duplicates,
\* the column assignments and sort_values work in place on clean_df, which
\* they leave holding out.
ArgAfter(df, out) ==
    IF df # <<>> /\ copy(df).object = "df" THEN out ELSE df

\* The two extractor classes: MAExtractorOptimized and MAExtractor, the one
\* app.py constructs.
ExtractorClasses == {"optimized", "plain"}

NormStart ==
    /\ n_class \in ExtractorClasses
    /\ n_raw \in RawLists
    /\ n_df = n_raw
    /\ n_first = <<>>
    /\ n_calls = 0
    /\ n_now = 0
    /\ n_arg = n_raw

\* The normalizer when another component is the one under study.
NormIdle ==
    /\ n_raw = <<>>
    /\ n_df = <<>>
    /\ n_first = <<>>
    /\ n_calls = 0
    /\ n_now = 0
    /\ n_class = "optimized"
    /\ n_arg = <<>>

\* The caller passes the list it holds through clean_and_structure_data.
CleanAndStructure ==
    /\ n_calls < MaxCleanCalls
    /\ \E out \in IF n_class = "plain" THEN clean_and_structure_data_plain(n_df)
                  ELSE clean_and_structure_data(n_df, n_now) :
        /\ n_df' = out
        /\ n_first' = IF n_calls = 0 THEN out ELSE n_first
        /\ n_arg' = ArgAfter(n_df, out)
    /\ n_calls' = n_calls + 1
    /\ UNCHANGED <<n_raw, n_now, n_class>>
    /\ UNCHANGED <<reqVars, pipeVars, valVars, runVars, searchVars, dateVars, appVars>>

\* A second of wall-clock time passes.
ClockTick ==
    /\ n_now < MaxClock
    /\ n_now' = n_now + 1
    /\ UNCHANGED <<n_raw, n_df, n_first, n_calls, n_class, n_arg>>
    /\ UNCHANGED <<reqVars, pipeVars, valVars, runVars, searchVars, dateVars, appVars>>

NormNext == CleanAndStructure \/ ClockTick

-----------------------------------------------------------------------------
(* Properties of the normalizer                                            *)

DigitValue(c) == Code(c) - Code("0")

NoDate == 0 - 1

\* The calendar day (as the number YYYYMMDD) a normalized date value denotes;
\* NoDate for None and for any value that is not a DD/MM/YYYY date.
CalendarValue(ds) ==
    IF ds = None THEN NoDate
    ELSE IF /\ Len(ds) = 10
            /\ ds[3] = "/" /\ ds[6] = "/"
            /\ \A k \in {1, 2, 4, 5, 7, 8, 9, 10} : IsDigit(ds[k])
    THEN (DigitValue(ds[7]) * 1000 + DigitValue(ds[8]) * 100
            + DigitValue(ds[9]) * 10 + DigitValue(ds[10])) * 10000
         + (DigitValue(ds[4]) * 10 + DigitValue(ds[5])) * 100
         + DigitValue(ds[1]) * 10 + DigitValue(ds[2])
    ELSE NoDate

\* The first position of url u in df.
FirstIndex(df, u) ==
    CHOOSE i \in 1..Len(df) :
        df[i].url = u /\ \A j \in 1..(i - 1) : df[j].url # u

\* C1: the normalized batch holds exactly one record per distinct url of the
\* raw merged list, and it is the first occurrence in merge order (same source
\* tag, same date text); no url appears that the raw list does not hold.
C1_DedupKeepsFirst ==
    n_calls >= 1 =>
        /\ \A i \in 1..Len(n_raw) :
            LET u    == n_raw[i].url
                hits == {k \in 1..Len(n_first) : n_first[k].url = u}
            IN  /\ Cardinality(hits) = 1
                /\ \A k \in hits :
                    /\ n_first[k].source = n_raw[FirstIndex(n_raw, u)].source
                    /\ n_first[k].date = n_raw[FirstIndex(n_raw, u)].date
        /\ \A k \in 1..Len(n_first) :
            \E i \in 1..Len(n_raw) : n_raw[i].url = n_first[k].url

\* C1 witness: a raw list with the same url from two different sources has
\* been normalized.
C1_Witness ==
    /\ n_calls >= 1
    /\ \E i, j \in 1..Len(n_raw) :
        /\ i < j
        /\ n_raw[i].url = n_raw[j].url
        /\ n_raw[i].source # n_raw[j].source

\* C2: in the normalized batch the records with a normalized date are in
\* non-increasing calendar order, and every record without one comes after
\* every record that has one.
C2_CalendarOrder ==
    n_calls >= 1 =>
        \A i, j \in 1..Len(n_first) :
            i < j =>
                LET a == CalendarValue(n_first[i].date_standardized)
                    b == CalendarValue(n_first[j].date_standardized)
                IN  /\ (a # NoDate /\ b # NoDate) => a >= b
                    /\ a = NoDate => b = NoDate

\* C3: a second normalization of a normalized batch returns it unchanged:
\* same records, same order, same field values, same extraction stamp.
C3_Idempotent == n_calls = 2 => n_df = n_first

\* The calendar day each date text of the model denotes (NoDate: none).
C7_ExpectedDay(date_str) ==
    CASE date_str = <<"0", "2", "/", "0", "1", "/", "2", "0", "2", "4">> -> 20240102
      [] date_str = <<"2", " ", "d", "e", " ", "j", "a", "n", "e", "i", "r", "o",
                      " ", "d", "e", " ", "2", "0", "2", "4">> -> 20240102
      [] date_str = <<"3", "1", "/", "0", "1", "/", "2", "0", "2", "3">> -> 20230131
      [] date_str = <<"1", "5", "/", "3", "/", "2", "4">> -> 20240315
      [] OTHER -> NoDate

\* C7: the numeric form and the long form of one calendar day get the same
\* normalized date, and a text in neither form gets a null normalized date.
C7_StandardizeDate ==
    n_calls >= 1 =>
        \A k \in 1..Len(n_first) :
            IF C7_ExpectedDay(n_first[k].date) = NoDate
            THEN n_first[k].date_standardized = None
            ELSE CalendarValue(n_first[k].date_standardized)
                    = C7_ExpectedDay(n_first[k].date)

\* The values extract_news_data can put in a transaction field.
C23_Extracted == { SomeDetails.buyer, SomeDetails.acquired, SomeDetails.value }

\* C23: in every record of a normalized batch buyer, acquired, value and
\* multiple hold an extracted value or the sentinel, never None.
C23_NoNullField ==
    n_calls >= 1 =>
        \A i \in 1..Len(n_df) :
            /\ n_df[i].buyer \in C23_Extracted \cup {NaoInformado}
            /\ n_df[i].acquired \in C23_Extracted \cup {NaoInformado}
            /\ n_df[i].value \in C23_Extracted \cup {NaoInformado}
            /\ n_df[i].multiple \in C23_Extracted \cup {NaoInformado}
            /\ None \notin {n_df[i].buyer, n_df[i].acquired, n_df[i].value,
                            n_df[i].multiple}

\* C23 witness: a normalized batch holds a record with an extracted buyer and
\* a record whose buyer is the sentinel.
C23_Witness ==
    /\ n_calls >= 1
    /\ \E i, j \in 1..Len(n_df) :
        /\ n_df[i].buyer = "Acme"
        /\ n_df[i].multiple = NaoInformado
        /\ n_df[j].buyer = NaoInformado
        /\ \E k \in 1..Len(n_raw) : n_raw[k].url = n_df[j].url /\ n_raw[k].buyer = None

\* C24: the records of a normalized batch all carry one extraction stamp, the
\* clock reading of the call that normalized the batch, whichever extractor
\* class normalized it.
C24_OneStampPerBatch ==
    /\ [](n_calls >= 1 =>
            \A i, j \in 1..Len(n_df) :
                /\ n_df[i].extraction_date = n_df[j].extraction_date
                /\ n_df[i].extraction_date \in 0..n_now)
    /\ [][n_calls' # n_calls =>
            \A i \in 1..Len(n_df') : n_df'[i].extraction_date = n_now]_vars

\* The same for the batches MAExtractorOptimized normalizes.
C24_OptimizedStamps ==
    /\ [](n_class = "optimized" /\ n_calls >= 1 =>
            \A i, j \in 1..Len(n_df) :
                /\ n_df[i].extraction_date = n_df[j].extraction_date
                /\ n_df[i].extraction_date \in 0..n_now)
    /\ [][n_class = "optimized" /\ n_calls' # n_calls =>
            \A i \in 1..Len(n_df') : n_df'[i].extraction_date = n_now]_vars

\* C24 witness: a batch of two records was normalized by MAExtractorOptimized
\* after the clock had advanced, and both records carry that reading.
C24_Witness ==
    /\ n_class = "optimized"
    /\ n_calls = 1
    /\ Len(n_df) = 2
    /\ n_now = 1
    /\ n_df[1].extraction_date = 1
    /\ n_df[2].extraction_date = 1

\* The position of the record with this url in the merged list after the
\* duplicates are dropped.
C25_MergePosition(url) ==
    CHOOSE k \in 1..Len(DropDuplicates(n_raw)) : DropDuplicates(n_raw)[k].url = url

\* C25: the sort is stable: records with equal normalized date, and records
\* without normalized date among themselves, are in merge order in the
\* normalized batch.
C25_StableSort ==
    n_calls = 1 =>
        \A i, j \in 1..Len(n_df) :
            (i < j /\ n_df[i].date_standardized = n_df[j].date_standardized)
                => C25_MergePosition(n_df[i].url) < C25_MergePosition(n_df[j].url)


-----------------------------------------------------------------------------
(* The per-request retry loop: _make_request (the same code in             *)
(* FusoesAquisicoesScraper and ValorEconomicoScraper)                      *)

MaxRetriesBound == 4    \* largest max_retries argument tried

DefaultMaxRetries == 3  \* max_retries=3 in the signature; no call site passes another

BackoffBase == 2        \* the factor 2 of wait_time = backoff_factor ** attempt * 2

\* backoff_factor values tried: the default 1.5, and 2.
BackoffFactors == { <<3, 2>>, <<2, 1>> }

\* What one session.get can come to: a response with a status code, or a
\* requests exception.
StatusCodes == {"200", "403", "429", "404", "500"}

RequestExceptions == {"Timeout", "ConnectionError"}

RECURSIVE Pow(_, _)
Pow(b, e) == IF e = 0 THEN 1 ELSE b * Pow(b, e - 1)

\* wait_time = backoff_factor ** attempt * 2, as a fraction of seconds.
WaitTime(backoff_factor, attempt) ==
    <<Pow(backoff_factor[1], attempt) * BackoffBase, Pow(backoff_factor[2], attempt)>>

ReqStart ==
    /\ rq_max_retries \in 1..MaxRetriesBound
    /\ rq_backoff \in BackoffFactors
    /\ rq_attempt = 0
    /\ rq_status = "running"
    /\ rq_log = <<>>
    /\ rq_waits = <<>>
    /\ rq_pacing = 0

ReqIdle ==
    /\ rq_max_retries = 0
    /\ rq_backoff = <<1, 1>>
    /\ rq_attempt = 0
    /\ rq_status = "idle"
    /\ rq_log = <<>>
    /\ rq_waits = <<>>
    /\ rq_pacing = 0

\* The loop moves to its next iteration; after the last one the function
\* logs the failure and returns None.
NextIteration ==
    /\ rq_attempt' = rq_attempt + 1
    /\ rq_status' = IF rq_attempt + 1 < rq_max_retries THEN "running" ELSE "failed"

\* An attempt answered with status 200: the response is returned.
AttemptOk ==
    /\ rq_status = "running"
    /\ rq_log' = Append(rq_log, "200")
    /\ rq_pacing' = rq_pacing + 1
    /\ rq_status' = "returned"
    /\ UNCHANGED <<rq_max_retries, rq_backoff, rq_attempt, rq_waits>>
    /\ UNCHANGED <<normVars, pipeVars, valVars, runVars, searchVars, dateVars, appVars>>

\* An attempt answered with 403: sleep wait_time, continue.
AttemptForbidden ==
    /\ rq_status = "running"
    /\ rq_log' = Append(rq_log, "403")
    /\ rq_pacing' = rq_pacing + 1
    /\ rq_waits' = Append(rq_waits, WaitTime(rq_backoff, rq_attempt))
    /\ NextIteration
    /\ UNCHANGED <<rq_max_retries, rq_backoff>>
    /\ UNCHANGED <<normVars, pipeVars, valVars, runVars, searchVars, dateVars, appVars>>

\* An attempt answered with a status that is neither 200 nor 403, and a request
\* that gives up on a 4xx status other than 403 and 429.
AttemptOtherStatusPermanent4xx ==
    /\ rq_status = "running"
    /\ \E code \in StatusCodes \ {"200", "403"} :
        /\ rq_log' = Append(rq_log, code)
        /\ IF code = "404"
           THEN /\ rq_status' = "failed"
                /\ UNCHANGED <<rq_attempt, rq_waits>>
           ELSE /\ rq_waits' = Append(rq_waits, WaitTime(rq_backoff, rq_attempt))
                /\ NextIteration
    /\ rq_pacing' = rq_pacing + 1
    /\ UNCHANGED <<rq_max_retries, rq_backoff>>
    /\ UNCHANGED <<normVars, pipeVars, valVars, runVars, searchVars, dateVars, appVars>>

\* An attempt answered with any other status that is not 200: sleep
\* wait_time, continue.
AttemptOtherStatus ==
    /\ rq_status = "running"
    /\ \E code \in StatusCodes \ {"200", "403"} :
        rq_log' = Append(rq_log, code)
    /\ rq_pacing' = rq_pacing + 1
    /\ rq_waits' = Append(rq_waits, WaitTime(rq_backoff, rq_attempt))
    /\ NextIteration
    /\ UNCHANGED <<rq_max_retries, rq_backoff>>
    /\ UNCHANGED <<normVars, pipeVars, valVars, runVars, searchVars, dateVars, appVars>>

\* An attempt that raises a RequestException (timeout, connection failure):
\* sleep wait_time only if another attempt follows.
AttemptException ==
    /\ rq_status = "running"
    /\ \E exc \in RequestExceptions :
        rq_log' = Append(rq_log, exc)
    /\ rq_pacing' = rq_pacing + 1
    /\ rq_waits' = IF rq_attempt < rq_max_retries - 1
                   THEN Append(rq_waits, WaitTime(rq_backoff, rq_attempt))
                   ELSE rq_waits
    /\ NextIteration
    /\ UNCHANGED <<rq_max_retries, rq_backoff>>
    /\ UNCHANGED <<normVars, pipeVars, valVars, runVars, searchVars, dateVars, appVars>>

ReqNext == AttemptOk \/ AttemptForbidden \/ AttemptOtherStatus \/ AttemptException

-----------------------------------------------------------------------------
(* Properties of the retry loop                                            *)

\* Equality of two fractions.
SameTime(a, b) == a[1] * b[2] = b[1] * a[2]

\* C5: with maxAttempts=3, baseDelay=1s, backoffMultiplier=2 a request whose
\* attempts all fail waits exactly [1s, 2s] and is reported failed after the
\* 3rd attempt.
C5_BackoffSequence ==
    (rq_status = "failed" /\ rq_max_retries = 3 /\ rq_backoff = <<2, 1>>) =>
        /\ Len(rq_log) = 3
        /\ Len(rq_waits) = 2
        /\ SameTime(rq_waits[1], <<1, 1>>)
        /\ SameTime(rq_waits[2], <<2, 1>>)

\* Outcomes after which a retry policy that treats 4xx as permanent retries.
C10_Retryable == {"Timeout", "ConnectionError", "429", "403", "500"}

\* C10 as stated: a further attempt follows a timeout, a connection failure,
\* 429, 403 or 5xx while attempts remain, and no attempt follows any other
\* 4xx response such as 404.
C10_PermanentOn4xx ==
    \A i \in 1..Len(rq_log) :
        /\ (rq_log[i] \in C10_Retryable /\ i < rq_max_retries /\ rq_status # "running")
              => i < Len(rq_log)
        /\ rq_log[i] = "404" => i = Len(rq_log)

\* C10 as amended: a further attempt follows every attempt that did not end
\* in a 200 response, 404 included, while attempts remain; the request ends
\* only with a 200 response or with max_retries attempts made.
C10_RetryOnAnyFailure ==
    /\ \A i \in 1..Len(rq_log) :
        (rq_log[i] # "200" /\ i < rq_max_retries /\ rq_status # "running")
            => i < Len(rq_log)
    /\ rq_status = "failed" => Len(rq_log) = rq_max_retries
    /\ rq_status = "returned" => rq_log[Len(rq_log)] = "200"

\* C10 witness: an attempt was made after a 404 response.
C10_Witness ==
    \E i \in 1..Len(rq_log) : rq_log[i] = "404" /\ i < Len(rq_log)

\* C26: a request that failed after all its attempts made exactly
\* max_retries - 1 backoff waits, and the step that reports the failure adds
\* no wait, whether the last attempt raised or was answered with a status
\* other than 200.
C26_NoWaitAfterLastAttempt ==
    /\ [](rq_status = "failed" => Len(rq_waits) = rq_max_retries - 1)
    /\ [][rq_status' = "failed" => rq_waits' = rq_waits]_vars

\* The same for the requests whose last attempt raised.
C26_NoWaitAfterLastException ==
    (rq_status = "failed" /\ rq_log[Len(rq_log)] \in RequestExceptions
                          /\ \A i \in 1..Len(rq_log) : rq_log[i] \in RequestExceptions)
        => Len(rq_waits) = rq_max_retries - 1

\* a <= b for two fractions with positive denominators.
NoLonger(a, b) == a[1] * b[2] <= b[1] * a[2]

\* The longest wait a call with the default max_retries can make, which is
\* the longest any call site of the repository makes: the code names no cap.
C27_Cap(backoff_factor) == WaitTime(backoff_factor, DefaultMaxRetries - 1)

\* C27: no backoff wait exceeds one fixed upper bound, whatever the attempt
\* index and whatever max_retries.
C27_WaitCapped ==
    \A i \in 1..Len(rq_waits) : NoLonger(rq_waits[i], C27_Cap(rq_backoff))

\* Every wait of a request is longer than the one before it, by the factor
\* backoff_factor: the waits grow with the attempt index without limit.
C27_WaitGrows ==
    \A i \in 2..Len(rq_waits) :
        /\ ~NoLonger(rq_waits[i], rq_waits[i - 1])
        /\ SameTime(rq_waits[i],
                    <<rq_waits[i - 1][1] * rq_backoff[1],
                      rq_waits[i - 1][2] * rq_backoff[2]>>)

-----------------------------------------------------------------------------
(* The orchestrator: run_pipeline_valor, run_valor_economico,              *)
(* run_fusoes_aquisicoes, run_all_sequential, run_all_parallel,            *)
(* save_to_excel and run_extraction                                        *)

MaxPipelineRetries == 3     \* largest max_retries argument tried (0 is the smallest)

EmptyRetrySleep == 10       \* time.sleep(10) after an empty cycle

ErrorBackoffUnit == 30      \* wait_time = 30 * (attempt + 1) after an exception

Adapters == {"pipeline", "valor", "fusoes"}

\* The order run_all_sequential calls the adapters in.
AdapterOrder == <<"pipeline", "valor", "fusoes">>

\* The value run_* writes into df['source'].
SourceName(a) ==
    CASE a = "pipeline" -> "Pipeline Valor"
      [] a = "valor" -> "Valor Economico"
      [] a = "fusoes" -> "Fusoes e Aquisicoes"

\* The record a scraper's extract_news_data returns for a page; url "x" is a
\* story that two of the sites carry.
Page(url) ==
    CASE url = "p1" ->
            RawRecord("p1", <<"0", "2", "/", "0", "1", "/", "2", "0", "2", "4">>,
                      NoDetails, None)
      [] url = "x" ->
            RawRecord("x", <<"3", "1", "/", "0", "1", "/", "2", "0", "2", "3">>,
                      NoDetails, None)
      [] url = "v1" ->
            RawRecord("v1", <<"2", " ", "d", "e", " ", "j", "a", "n", "e", "i", "r",
                              "o", " ", "d", "e", " ", "2", "0", "2", "4">>,
                      NoDetails, None)
      [] url = "v2" ->
            RawRecord("v2", <<"1", "5", "/", "3", "/", "2", "4">>, NoDetails, None)
      [] url = "f1" ->
            RawRecord("f1", DataNaoEncontrada, NoDetails, None)

\* The DataFrames a scraper's run_scraper can return in one cycle.
ScraperOutputs(a) ==
    CASE a = "pipeline" -> { <<>>, <<Page("p1")>>, <<Page("p1"), Page("x")>> }
      [] a = "valor" -> { <<>>, <<Page("v1"), Page("v2")>> }
      [] a = "fusoes" -> { <<>>, <<Page("f1")>>, <<Page("x"), Page("f1")>> }

\* df['source'] = <name of the source>
TagSource(df, a) == [i \in 1..Len(df) |-> [df[i] EXCEPT !.source = SourceName(a)]]

\* pd.concat(dfs, ignore_index=True)
RECURSIVE Concat(_)
Concat(dfs) == IF dfs = <<>> THEN <<>> ELSE Head(dfs) \o Concat(Tail(dfs))

NoneProduced == [a \in Adapters |-> <<>>]

\* The adapter calls of a cycle before any has returned.
NoOutcome ==
    [a \in Adapters |-> [raised |-> FALSE, df |-> <<>>, why |-> "ok", built |-> FALSE,
                         scraper |-> 0]]

\* app.py constructs MAExtractor, whose run_extraction has no max_retries and
\* no loop: it makes the one pass that max_retries = 1 gives. A direct caller
\* of MAExtractorOptimized.run_extraction chooses max_retries.
EntryPoints == {"app", "direct"}

BudgetOf(entry) == IF entry = "app" THEN {1} ELSE 0..MaxPipelineRetries

PipeStart ==
    /\ px_entry \in EntryPoints
    /\ px_max_retries \in BudgetOf(px_entry)
    /\ px_parallel \in BOOLEAN
    /\ px_creds \in BOOLEAN
    /\ px_built = 0
    /\ px_base = 0
    /\ px_workers = {}
    /\ px_pc = "idle"
    /\ px_attempt = 0
    /\ px_ran = {}
    /\ px_raised = {}
    /\ px_produced = NoneProduced
    /\ px_results = <<>>
    /\ px_terminated = {}
    /\ px_outcome = NoOutcome
    /\ px_errors = {}
    /\ px_merged = <<>>
    /\ px_hist = <<>>
    /\ px_events = 0
    /\ px_sleeps = <<>>
    /\ px_batch = <<>>
    /\ px_result = None

PipeIdle ==
    /\ px_entry = "direct"
    /\ px_max_retries = 0
    /\ px_parallel = FALSE
    /\ px_creds = FALSE
    /\ px_built = 0
    /\ px_base = 0
    /\ px_workers = {}
    /\ px_pc = "off"
    /\ px_attempt = 0
    /\ px_ran = {}
    /\ px_raised = {}
    /\ px_produced = NoneProduced
    /\ px_results = <<>>
    /\ px_terminated = {}
    /\ px_outcome = NoOutcome
    /\ px_errors = {}
    /\ px_merged = <<>>
    /\ px_hist = <<>>
    /\ px_events = 0
    /\ px_sleeps = <<>>
    /\ px_batch = <<>>
    /\ px_result = None

\* A cycle (one call of run_all_sequential or run_all_parallel) starts afresh.
FreshCycle ==
    /\ px_ran' = {}
    /\ px_raised' = {}
    /\ px_produced' = NoneProduced
    /\ px_results' = <<>>
    /\ px_errors' = {}

\* executor.submit(run_pipeline), executor.submit(run_valor),
\* executor.submit(run_fusoes); run_all_sequential submits nothing.
Submitted == IF px_parallel THEN Adapters ELSE {}

\* run_all_parallel makes a new executor and submits three new tasks; the
\* scrapers of the cycle are constructed after this point.
FreshWorkers ==
    /\ px_terminated' = {}
    /\ px_outcome' = NoOutcome
    /\ px_workers' = Submitted
    /\ px_base' = px_built

\* run_extraction is called: the for loop runs max_retries iterations, none
\* when max_retries is 0, and then the function returns None.
StartExtraction ==
    /\ px_pc = "idle"
    /\ px_pc' = IF px_max_retries > 0 THEN "cycle" ELSE "done"
    /\ px_workers' = IF px_max_retries > 0 THEN Submitted ELSE {}
    /\ px_base' = px_built
    /\ UNCHANGED pipeArgs
    /\ UNCHANGED <<px_built, px_attempt, px_ran,
                   px_raised, px_produced, px_results, px_terminated, px_outcome,
                   px_errors, px_merged, px_hist, px_events, px_sleeps, px_batch,
                   px_result>>
    /\ UNCHANGED <<normVars, reqVars, valVars, runVars, searchVars, dateVars, appVars>>

\* A logger that records exceptions only.
LoggedFailureExceptionsOnly(a, out) ==
    IF out.why = "exception" THEN { [adapter |-> a, why |-> out.why] } ELSE {}

\* What the adapter and its scraper write with logger.error: the exception
\* caught by run_*, the missing credentials, the login that failed.
LoggedFailure(a, out) ==
    IF out.why # "ok" THEN { [adapter |-> a, why |-> out.why] } ELSE {}

\* An adapter without the try/except: the scraper's exception leaves
\* run_all_* and the cycle ends in run_extraction's handler.
AdapterPropagates(a, out) ==
    IF out.raised
    THEN /\ px_hist' = Append(px_hist, "raise")
         /\ px_merged' = <<>>
         /\ px_pc' = IF px_attempt < px_max_retries - 1 THEN "cycle" ELSE "done"
         /\ px_attempt' = px_attempt + 1
         /\ px_sleeps' = px_sleeps
         /\ px_result' = None
         /\ FreshCycle
    ELSE /\ px_ran' = px_ran \cup {a}
         /\ px_raised' = px_raised
         /\ px_errors' = px_errors \cup LoggedFailure(a, out)
         /\ px_produced' = [px_produced EXCEPT ![a] = out.df]
         /\ px_results' = IF out.df = <<>> THEN px_results
                          ELSE Append(px_results, TagSource(out.df, a))
         /\ UNCHANGED <<px_pc, px_attempt, px_merged, px_hist, px_sleeps, px_result>>

\* What run_pipeline_valor / run_valor_economico / run_fusoes_aquisicoes does
\* with its scraper: out.df is what run_scraper returned, out.raised says that
\* the constructor or run_scraper raised. The exception is caught and an empty
\* DataFrame returned; a non-empty DataFrame is tagged with its source, and
\* the caller keeps it when it is not empty.
AdapterReturns(a, out) ==
    /\ px_ran' = px_ran \cup {a}
    /\ px_errors' = px_errors \cup LoggedFailure(a, out)
    /\ px_raised' = IF out.raised THEN px_raised \cup {a} ELSE px_raised
    /\ px_produced' = [px_produced EXCEPT ![a] = out.df]
    /\ px_results' = IF out.raised \/ out.df = <<>>
                     THEN px_results
                     ELSE Append(px_results, TagSource(out.df, a))
    /\ UNCHANGED <<px_pc, px_attempt, px_merged, px_hist, px_sleeps, px_result>>

\* A run_valor_economico that does not look at the environment.
CredentialsNotChecked(a) == TRUE

\* if not os.getenv('VALOR_EMAIL') or not os.getenv('VALOR_PASSWORD'): only
\* run_valor_economico asks for credentials.
CredentialsConfigured(a) == a # "valor" \/ px_creds

\* What the scraper of adapter a can come to in one cycle. Without the
\* credentials run_valor_economico returns an empty DataFrame before it
\* constructs a scraper; with credentials that the site refuses, login fails,
\* search_news returns no url and run_scraper an empty DataFrame.
\* An extractor that constructs one scraper per adapter and keeps it.
KeptScraper(a) == CHOOSE i \in 1..3 : AdapterOrder[i] = a

\* scraper = PipelineValorScraper() / ValorEconomicoScraper(...) /
\* FusoesAquisicoesScraper(): a new object, numbered in order of construction.
NewScraper(a) == px_built + 1

\* built says that the scraper, and with it its backend, was constructed;
\* scraper is the object the adapter used.
ScraperOutcomes(a) ==
    IF ~CredentialsConfigured(a)
    THEN { [raised |-> FALSE, df |-> <<>>, why |-> "config", built |-> FALSE,
            scraper |-> 0] }
    ELSE { [raised |-> FALSE, df |-> d, why |-> "ok", built |-> TRUE,
            scraper |-> NewScraper(a)] : d \in ScraperOutputs(a) }
            \cup { [raised |-> TRUE, df |-> <<>>, why |-> "exception", built |-> TRUE,
                    scraper |-> NewScraper(a)] }
            \cup IF a = "valor"
                 THEN { [raised |-> FALSE, df |-> <<>>, why |-> "auth", built |-> TRUE,
                         scraper |-> NewScraper(a)] }
                 ELSE {}

\* The count of constructed scrapers after an adapter call that came to out.
BuiltAfter(out) == IF out.built THEN px_built + 1 ELSE px_built

\* run_all_sequential: the next adapter in order runs and returns.
RunAdapterSequential(a) ==
    /\ px_pc = "cycle"
    /\ ~px_parallel
    /\ a \notin px_ran
    /\ \A i, j \in 1..3 : (AdapterOrder[j] = a /\ i < j) => AdapterOrder[i] \in px_ran
    /\ \E out \in ScraperOutcomes(a) :
        /\ AdapterReturns(a, out)
        /\ px_outcome' = [px_outcome EXCEPT ![a] = out]
        /\ px_built' = BuiltAfter(out)
    /\ UNCHANGED pipeArgs
    /\ UNCHANGED <<px_base, px_workers, px_events, px_batch, px_terminated>>
    /\ UNCHANGED <<normVars, reqVars, valVars, runVars, searchVars, dateVars, appVars>>

\* run_all_parallel: the worker thread of adapter a returns from run_pipeline,
\* run_valor or run_fusoes, whatever the other workers have come to; its
\* future is done.
WorkerTerminates(a) ==
    /\ px_pc = "cycle"
    /\ px_parallel
    /\ a \in px_workers
    /\ a \notin px_terminated
    /\ \E out \in ScraperOutcomes(a) :
        /\ px_outcome' = [px_outcome EXCEPT ![a] = out]
        /\ px_errors' = px_errors \cup LoggedFailure(a, out)
        /\ px_built' = BuiltAfter(out)
    /\ px_terminated' = px_terminated \cup {a}
    /\ UNCHANGED pipeArgs
    /\ UNCHANGED <<px_base, px_workers, px_pc, px_attempt, px_ran,
                   px_raised, px_produced, px_results, px_merged, px_hist,
                   px_events, px_sleeps, px_batch, px_result>>
    /\ UNCHANGED <<normVars, reqVars, valVars, runVars, searchVars, dateVars, appVars>>

\* The order the main thread takes the workers' results in: MAExtractor
\* (app.py's extractor) calls result() on the three futures in the order it
\* submitted them, MAExtractorOptimized takes them as as_completed yields.
TakenInTurn(a) ==
    px_entry = "app" =>
        \A i, j \in 1..3 : (AdapterOrder[j] = a /\ i < j) => AdapterOrder[i] \in px_ran

\* run_all_parallel: the main thread gets the future of a worker that has
\* returned and keeps its not empty result.
WorkerCompletes(a) ==
    /\ px_pc = "cycle"
    /\ px_parallel
    /\ a \in px_terminated
    /\ a \notin px_ran
    /\ TakenInTurn(a)
    /\ AdapterReturns(a, px_outcome[a])
    /\ UNCHANGED pipeArgs
    /\ UNCHANGED <<px_built, px_base, px_workers, px_events, px_batch,
                   px_terminated, px_outcome>>
    /\ UNCHANGED <<normVars, reqVars, valVars, runVars, searchVars, dateVars, appVars>>

\* A retry test that stops one attempt early.
ShouldRetryEmptyShort(df, attempt, max_retries) ==
    df = <<>> /\ attempt < max_retries - 2

\* if df.empty and attempt < max_retries - 1
ShouldRetryEmpty(df, attempt, max_retries) ==
    df = <<>> /\ attempt < max_retries - 1

\* A run_all_* that returns with the first result it has.
FirstReturned == px_ran # {}

\* run_all_sequential has called the three adapters; in run_all_parallel the
\* as_completed loop has yielded the three futures and the executor is shut
\* down.
AllReturned == px_ran = Adapters

\* The cycle returned an empty DataFrame and attempts remain: warn, sleep 10
\* seconds, continue with the next iteration.
RetryEmpty ==
    /\ px_pc = "cycle"
    /\ AllReturned
    /\ ShouldRetryEmpty(Concat(px_results), px_attempt, px_max_retries)
    /\ px_events' = px_events + 1
    /\ px_sleeps' = Append(px_sleeps, EmptyRetrySleep)
    /\ px_attempt' = px_attempt + 1
    /\ px_hist' = Append(px_hist, "empty")
    /\ px_merged' = <<>>
    /\ FreshCycle
    /\ FreshWorkers
    /\ UNCHANGED pipeArgs
    /\ UNCHANGED <<px_built, px_pc, px_batch, px_result>>
    /\ UNCHANGED <<normVars, reqVars, valVars, runVars, searchVars, dateVars, appVars>>

\* The adapters that the value run_extraction returns names as failed: the
\* value is the path of the saved file or None, and names none.
FailuresIn(result) == {}

\* save_to_excel: None for an empty DataFrame and when writing the file
\* raises (written = FALSE), the file path otherwise.
save_to_excel(df, written) ==
    IF df = <<>> THEN None
    ELSE IF written THEN "file"
    ELSE None

\* The cycle returned records, or it was the last attempt: the merged
\* DataFrame is cleaned, saved, and the file path returned.
FinishAndSave ==
    /\ px_pc = "cycle"
    /\ AllReturned
    /\ ~ShouldRetryEmpty(Concat(px_results), px_attempt, px_max_retries)
    /\ px_merged' = Concat(px_results)
    /\ px_hist' = Append(px_hist, IF Concat(px_results) = <<>> THEN "empty" ELSE "records")
    /\ \E clean_df \in IF px_entry = "app"
                       THEN clean_and_structure_data_plain(Concat(px_results))
                       ELSE clean_and_structure_data(Concat(px_results), n_now) :
        /\ px_batch' = <<clean_df>>
        /\ \E written \in BOOLEAN : px_result' = save_to_excel(clean_df, written)
    /\ px_pc' = "done"
    /\ UNCHANGED pipeArgs
    /\ UNCHANGED <<px_built, px_base, px_workers, px_attempt, px_ran,
                   px_raised, px_produced, px_results, px_terminated, px_outcome,
                   px_errors, px_events, px_sleeps>>
    /\ UNCHANGED <<normVars, reqVars, valVars, runVars, searchVars, dateVars, appVars>>

\* An exception leaves the try block of run_extraction as the cycle starts
\* (run_all_* itself raises): with attempts left, sleep 30 * (attempt + 1)
\* and go on; on the last attempt log the failure, leave the loop and
\* return None.
CycleRaises ==
    /\ px_pc = "cycle"
    /\ px_ran = {}
    /\ px_terminated = {}
    /\ px_hist' = Append(px_hist, "raise")
    /\ px_merged' = <<>>
    /\ IF px_attempt < px_max_retries - 1
       THEN /\ px_sleeps' = Append(px_sleeps, ErrorBackoffUnit * (px_attempt + 1))
            /\ px_pc' = "cycle"
       ELSE /\ px_sleeps' = px_sleeps
            /\ px_pc' = "done"
    /\ px_attempt' = px_attempt + 1
    /\ px_result' = None
    /\ UNCHANGED pipeArgs
    /\ UNCHANGED <<px_built, px_base, px_workers, px_ran, px_raised,
                   px_produced, px_results, px_terminated, px_outcome, px_errors,
                   px_events, px_batch>>
    /\ UNCHANGED <<normVars, reqVars, valVars, runVars, searchVars, dateVars, appVars>>

PipeNext ==
    \/ StartExtraction
    \/ \E a \in Adapters : RunAdapterSequential(a)
    \/ \E a \in Adapters : WorkerTerminates(a)
    \/ \E a \in Adapters : WorkerCompletes(a)
    \/ RetryEmpty
    \/ FinishAndSave
    \/ CycleRaises

-----------------------------------------------------------------------------
(* Properties of the orchestrator                                          *)

InDf(r, df) == \E k \in 1..Len(df) : df[k] = r

UrlsOf(df) == { df[k].url : k \in 1..Len(df) }

LastCycle == px_hist[Len(px_hist)]

\* Every record the scrapers of this cycle returned is in df, tagged with its
\* adapter's source.
C4_AllProducedIn(df) ==
    \A a \in Adapters :
        \A i \in 1..Len(px_produced[a]) :
            InDf([px_produced[a][i] EXCEPT !.source = SourceName(a)], df)

\* C4: an adapter that raises does not stop the cycle: once an adapter of a
\* cycle has returned, the cycle goes on, adapter by adapter, until all three
\* have run, in sequential and in parallel mode; and every record the other
\* adapters produced is in the merged DataFrame of the cycle, which is the one
\* handed to the normalizer.
C4_Isolation ==
    /\ [](/\ px_raised \subseteq px_ran
          /\ (px_pc = "cycle" /\ px_ran = Adapters)
                => C4_AllProducedIn(Concat(px_results))
          /\ (px_pc = "done" /\ px_hist # <<>> /\ LastCycle = "records")
                => (px_ran = Adapters /\ C4_AllProducedIn(px_merged)))
    /\ [][(px_pc = "cycle" /\ px_ran # {} /\ px_ran # Adapters)
            => /\ px_pc' = "cycle"
               /\ px_hist' = px_hist
               /\ px_ran \subseteq px_ran'
               /\ px_terminated \subseteq px_terminated'
               /\ (px_ran' # px_ran \/ px_terminated' # px_terminated)]_vars

\* C4 witness: a cycle in which one adapter raised and another produced
\* records has been merged and handed on.
C4_Witness ==
    /\ px_pc = "done"
    /\ px_raised # {}
    /\ \E a \in Adapters \ px_raised : px_produced[a] # <<>>
    /\ px_batch # <<>>
    /\ px_merged # <<>>

\* The first Len(px_hist) - 1 cycles were empty and the last returned records.
C8_EmptiesThenRecords ==
    /\ px_hist # <<>>
    /\ LastCycle = "records"
    /\ \A i \in 1..(Len(px_hist) - 1) : px_hist[i] = "empty"

C8_AllEmpty ==
    /\ px_hist # <<>>
    /\ \A i \in 1..Len(px_hist) : px_hist[i] = "empty"

\* The run ended handing save_to_excel exactly the records of its last
\* cycle, one per url, with k empty-attempt events recorded.
C8_EndsWithLastCycle(k) ==
    /\ px_events = k
    /\ px_batch # <<>>
    /\ UrlsOf(px_batch[1]) = UrlsOf(px_merged)
    /\ Len(px_batch[1]) = Cardinality(UrlsOf(px_merged))
    /\ C4_AllProducedIn(px_merged)

\* C8 as stated: with retry budget n = max_retries, when the first k <= n
\* cycles are empty the run goes on to cycle k+1 (it does not give up before
\* n+1 cycles), and when cycle k+1 returns records the run ends with exactly
\* those records and k empty-attempt events.
C8_RetryBudget ==
    px_pc = "done" =>
        /\ C8_AllEmpty => Len(px_hist) > px_max_retries
        /\ C8_EmptiesThenRecords => C8_EndsWithLastCycle(Len(px_hist) - 1)

\* C8 as amended: max_retries = n is the number of full cycles; when the
\* first k < n cycles are empty the run goes on to cycle k+1 (it gives up only
\* after n empty cycles), and when cycle k+1 returns records the run ends
\* handing exactly those records to save_to_excel, with k empty-attempt
\* events.
C8_AttemptBudget ==
    px_pc = "done" =>
        /\ C8_AllEmpty => Len(px_hist) = px_max_retries
        /\ C8_EmptiesThenRecords =>
            /\ Len(px_hist) <= px_max_retries
            /\ C8_EndsWithLastCycle(Len(px_hist) - 1)

\* C8 witness: max_retries = 3, two empty cycles, then a cycle with 5 records:
\* 5 records saved, two empty-attempt events.
C8_Witness ==
    /\ px_pc = "done"
    /\ px_max_retries = 3
    /\ px_hist = <<"empty", "empty", "records">>
    /\ px_events = 2
    /\ px_batch # <<>>
    /\ Len(px_batch[1]) = 5
    /\ px_result = "file"

\* C9: run_extraction reports failure (returns None) if and only if every
\* permitted cycle was used and none of them returned records.
C9_FailureIffExhaustedEmpty ==
    px_pc = "done" =>
        (px_result = None <=>
            /\ Len(px_hist) >= px_max_retries
            /\ \A i \in 1..Len(px_hist) : px_hist[i] # "records")

\* C11 as stated: in parallel mode no result is in the result list, and the
\* normalizer has not been invoked, before all three workers have terminated.
C11_NothingBeforeJoin ==
    px_parallel =>
        /\ px_results # <<>> => px_terminated = Adapters
        /\ px_batch # <<>> => px_terminated = Adapters

\* C11 as amended: in parallel mode a result enters the result list only
\* after its own worker has terminated, and it is that worker's result; the
\* results are concatenated and the normalizer is invoked only after all three
\* workers have terminated and been collected; and whatever the other workers
\* have come to (a failure included), a worker that is still running can
\* return.
C11_JoinBeforeMerge ==
    px_parallel =>
        /\ px_ran \subseteq px_terminated
        /\ \A k \in 1..Len(px_results) :
            \E a \in px_ran :
                /\ ~px_outcome[a].raised
                /\ px_results[k] = TagSource(px_outcome[a].df, a)
        /\ (px_batch # <<>> \/ px_merged # <<>>)
              => (px_terminated = Adapters /\ px_ran = Adapters)
        /\ px_pc = "cycle" =>
              \A a \in Adapters \ px_terminated : ENABLED WorkerTerminates(a)

\* C11 witness: a parallel cycle in which one worker failed and the two
\* others returned records has been merged and normalized.
C11_Witness ==
    /\ px_parallel
    /\ px_pc = "done"
    /\ Cardinality(px_raised) = 1
    /\ \A a \in Adapters \ px_raised : px_outcome[a].df # <<>>
    /\ px_batch # <<>>
    /\ Len(px_results) = 2

\* The adapters of the last cycle that returned records, and those that
\* failed.
C12_Succeeded == { a \in Adapters : px_outcome[a].df # <<>> }

C12_Failed == { a \in Adapters : px_outcome[a].why # "ok" }

C15_CanRun(a) ==
    IF px_parallel
    THEN IF a \in px_terminated THEN ENABLED WorkerCompletes(a)
         ELSE ENABLED WorkerTerminates(a)
    ELSE ENABLED RunAdapterSequential(a)

\* C15: without the credentials run_valor_economico returns an empty
\* DataFrame, logs the error and constructs no scraper; the two other adapters
\* still run, and the records they produce are in the DataFrame the cycle
\* hands on, in sequential and in parallel mode.
C15_MissingCredentials ==
    ~px_creds =>
        /\ ("valor" \in px_ran \cup px_terminated) =>
              /\ ~px_outcome["valor"].built
              /\ px_outcome["valor"].df = <<>>
              /\ ~px_outcome["valor"].raised
              /\ [adapter |-> "valor", why |-> "config"] \in px_errors
        /\ "valor" \in px_ran => px_produced["valor"] = <<>>
        /\ (px_pc = "cycle" /\ "valor" \in px_ran) =>
              \A a \in Adapters \ px_ran : C15_CanRun(a)
        /\ (px_pc = "done" /\ px_hist # <<>> /\ LastCycle # "raise") =>
              /\ px_ran = Adapters
              /\ \A a \in Adapters \ {"valor"} :
                    \A i \in 1..Len(px_produced[a]) :
                        /\ InDf([px_produced[a][i] EXCEPT !.source = SourceName(a)],
                                px_merged)
                        /\ px_produced[a][i].url \in UrlsOf(px_batch[1])

\* C15 witness: a parallel run without credentials has ended with records of
\* both other adapters handed on.
C15_Witness ==
    /\ ~px_creds
    /\ px_parallel
    /\ px_pc = "done"
    /\ [adapter |-> "valor", why |-> "config"] \in px_errors
    /\ px_produced["pipeline"] # <<>>
    /\ px_produced["fusoes"] # <<>>
    /\ px_batch # <<>>


\* C16: the delays slept after successive empty cycles grow exponentially:
\* each is larger than the one before, by the same factor every time.
\* px_sleeps[i] is the delay slept after cycle i, whose outcome is px_hist[i].
C16_ExponentialDelay ==
    /\ \A i \in 1..(Len(px_sleeps) - 1) :
          (px_hist[i] = "empty" /\ px_hist[i + 1] = "empty")
              => px_sleeps[i + 1] > px_sleeps[i]
    /\ \A i \in 1..(Len(px_sleeps) - 2) :
          (px_hist[i] = "empty" /\ px_hist[i + 1] = "empty" /\ px_hist[i + 2] = "empty")
              => px_sleeps[i + 1] * px_sleeps[i + 1] = px_sleeps[i] * px_sleeps[i + 2]


\* C17: a run that app.py starts and whose first cycle returns an empty
\* DataFrame runs the cycle again before it reports failure.
C17_AppEntryRetries ==
    (px_entry = "app" /\ px_pc = "done" /\ px_hist # <<>> /\ px_hist[1] = "empty")
        => Len(px_hist) >= 2


\* C18: whatever max_retries >= 0 is, 0 included, a run that has ended made
\* at least one cycle and at most max_retries + 1 cycles.
C18_CycleCount ==
    px_pc = "done" =>
        /\ Len(px_hist) >= 1
        /\ Len(px_hist) <= px_max_retries + 1


\* C19: a run goes from idle to running its cycles and from there to its end,
\* with a file (completed) or with None (exhausted); it ends after at most
\* max_retries cycles, and once ended it stays ended with the same result.
C19_RunStateMachine ==
    /\ [](px_pc = "done" =>
            /\ px_result \in {"file", None}
            /\ Len(px_hist) <= px_max_retries)
    /\ [][/\ px_pc = "idle" => px_pc' \in {"idle", "cycle"}
          /\ px_pc = "cycle" => px_pc' \in {"cycle", "done"}
          /\ px_pc = "done" => (px_pc' = "done" /\ px_result' = px_result
                                  /\ px_hist' = px_hist)]_vars

\* The adapters whose call of this cycle has come to its outcome.
C20_Invoked == px_ran \cup px_terminated

\* C20: every cycle is a full re-fetch. Each cycle calls each of the three
\* adapters once: a cycle ends only when all three have returned. The scraper
\* an adapter works with was constructed in that cycle and is used by no other
\* adapter (run_valor_economico without credentials constructs none). A cycle
\* begins with no result and no record, and the DataFrames it collects are
\* those its own adapters returned. In parallel mode the cycle has exactly
\* three workers, one per adapter.
C20_FullRefetch ==
    /\ [](/\ \A a \in C20_Invoked :
                /\ px_outcome[a].built <=> CredentialsConfigured(a)
                /\ px_outcome[a].built =>
                      /\ px_outcome[a].scraper > px_base
                      /\ px_outcome[a].scraper <= px_built
                      /\ \A b \in C20_Invoked \ {a} :
                            px_outcome[b].scraper # px_outcome[a].scraper
          /\ (px_pc = "cycle" /\ C20_Invoked = {}) =>
                /\ px_results = <<>>
                /\ px_produced = NoneProduced
                /\ px_outcome = NoOutcome
                /\ px_built = px_base
          /\ \A k \in 1..Len(px_results) :
                \E a \in px_ran : px_results[k] = TagSource(px_outcome[a].df, a)
          /\ Len(px_results) <= Cardinality(px_ran)
          /\ (px_pc = "cycle" /\ px_parallel) =>
                /\ px_workers = Adapters
                /\ Cardinality(px_workers) = 3
                /\ px_terminated \subseteq px_workers
          /\ (px_pc = "cycle" /\ ~px_parallel) => px_workers = {})
    /\ [][(px_hist' # px_hist /\ px_hist'[Len(px_hist')] # "raise")
             => px_ran = Adapters]_vars

\* C20 witness: a parallel run whose first cycle was empty has ended its
\* second cycle with records; six scrapers were constructed, three of them
\* in the second cycle.
C20_Witness ==
    /\ px_parallel
    /\ px_creds
    /\ px_pc = "done"
    /\ px_hist = <<"empty", "records">>
    /\ px_built = 6
    /\ px_base = 3
    /\ \A a \in Adapters : px_outcome[a].scraper > 3


-----------------------------------------------------------------------------
(* ValorEconomicoScraper: which backend each request goes through          *)

MaxRequests == 4

Sent(op, backend) == [op |-> op, backend |-> backend]

ValStart ==
    /\ v_pc = "new"
    /\ v_fallback \in BOOLEAN
    /\ v_creds \in BOOLEAN
    /\ v_browser \in BOOLEAN
    /\ v_driver = None
    /\ v_quit = FALSE
    /\ v_session = FALSE
    /\ v_init_calls = 0
    /\ v_init_failed = FALSE
    /\ v_log = <<>>
    /\ v_ret = None

ValIdle ==
    /\ v_pc = "off"
    /\ v_fallback = FALSE
    /\ v_creds = FALSE
    /\ v_browser = FALSE
    /\ v_driver = None
    /\ v_quit = FALSE
    /\ v_session = FALSE
    /\ v_init_calls = 0
    /\ v_init_failed = FALSE
    /\ v_log = <<>>
    /\ v_ret = None

\* _init_selenium reads self.user_agents, which _init_requests_session sets:
\* without the requests session it raises before it starts the browser.
InitSeleniumSucceeds == v_fallback /\ v_browser

\* __init__: the requests session when use_requests_fallback, then one call
\* of _init_selenium; when it raises, driver and wait are set to None.
Construct ==
    /\ v_pc = "new"
    /\ v_session' = v_fallback
    /\ v_init_calls' = v_init_calls + 1
    /\ v_driver' = IF InitSeleniumSucceeds THEN "driver" ELSE None
    /\ v_init_failed' = ~InitSeleniumSucceeds
    /\ v_pc' = "live"
    /\ UNCHANGED <<v_fallback, v_creds, v_browser, v_quit, v_log, v_ret>>
    /\ UNCHANGED <<normVars, reqVars, pipeVars, runVars, searchVars, dateVars, appVars>>

\* A test of the driver that takes it to be there.
HasDriverUnchecked(driver) == TRUE

\* if self.driver:
HasDriver(driver) == driver # None

\* What the browser can do with a page: after quit() every call raises.
SeleniumOutcomes == IF v_quit THEN {"raises"} ELSE {"ok", "fails", "raises"}

\* login(), its requests logged as op: the pairs <<requests sent, value
\* returned>>. A Selenium login that raises is followed by a requests login
\* when use_requests_fallback.
LoginOutcomesAs(op) ==
    IF ~v_creds THEN { <<<<>>, "False">> }
    ELSE IF ~HasDriver(v_driver)
    THEN { <<<<Sent(op, "requests")>>, r>> : r \in {"True", "False"} }
    ELSE UNION { IF o = "ok" THEN { <<<<Sent(op, "selenium")>>, "True">> }
                 ELSE IF o = "fails" THEN { <<<<Sent(op, "selenium")>>, "False">> }
                 ELSE IF v_fallback
                 THEN { <<<<Sent(op, "selenium"), Sent(op, "requests")>>, r>>
                            : r \in {"True", "False"} }
                 ELSE { <<<<Sent(op, "selenium")>>, "False">> }
                 : o \in SeleniumOutcomes }

LoginOutcomes == LoginOutcomesAs("login")

\* The backend search_news and extract_news_data fetch with.
FetchBackend == IF HasDriver(v_driver) THEN "selenium" ELSE "requests"

\* One fetch of search_news or extract_news_data. _search_news_selenium and
\* _extract_news_data_selenium catch every exception themselves and return
\* nothing, so the requests branch after them is taken only without a driver.
FetchOutcomes(op, found, nothing) ==
    IF FetchBackend = "selenium"
    THEN { <<<<Sent(op, "selenium")>>, IF o = "ok" THEN found ELSE nothing>>
             : o \in SeleniumOutcomes }
    ELSE { <<<<Sent(op, "requests")>>, r>> : r \in {found, nothing} }

\* The login a document with the paywall marker leads to: login() in
\* _extract_news_data_selenium, _login_with_requests in
\* _extract_news_data_requests.
ReloginOutcomes ==
    IF FetchBackend = "selenium" THEN LoginOutcomesAs("relogin")
    ELSE { <<<<Sent("relogin", "requests")>>, r>> : r \in {"True", "False"} }

\* What extract_news_data returns for a document that was fetched again after
\* the login and shows the paywall still: the marker is looked for in the
\* first document only, and the record is built from what the second holds.
walled_record == "walled_record"

\* extract_news_data for one url: the document is fetched; when it shows the
\* paywall the scraper logs in again and, the login having returned True,
\* fetches the url again and reads whatever that document holds.
DetailOutcomes ==
    LET first == FetchOutcomes("detail", "record", None)
        again == FetchOutcomes("refetch", "record", None)
                    \cup FetchOutcomes("refetch", walled_record, None)
        walled == IF FetchBackend = "selenium" /\ v_quit THEN {}
                  ELSE UNION { IF lo[2] = "False"
                               THEN { <<<<Sent("detail", FetchBackend)>> \o lo[1], None>> }
                               ELSE { <<<<Sent("detail", FetchBackend)>> \o lo[1] \o re[1],
                                        re[2]>> : re \in again }
                               : lo \in ReloginOutcomes }
    IN  first \cup walled

\* _make_request creates the requests session when the instance has none.
SessionAfter(sent) ==
    v_session \/ \E i \in 1..Len(sent) : sent[i].backend = "requests"

Login ==
    /\ v_pc = "live"
    /\ Len(v_log) < MaxRequests
    /\ \E out \in LoginOutcomes :
        /\ v_log' = v_log \o out[1]
        /\ v_ret' = out[2]
        /\ v_session' = SessionAfter(out[1])
    /\ UNCHANGED <<v_pc, v_fallback, v_creds, v_browser, v_driver, v_quit,
                   v_init_calls, v_init_failed>>
    /\ UNCHANGED <<normVars, reqVars, pipeVars, runVars, searchVars, dateVars, appVars>>

\* search_news: login first; without login no search is made.
SearchNews ==
    /\ v_pc = "live"
    /\ Len(v_log) < MaxRequests
    /\ \E in \in LoginOutcomes :
        IF in[2] = "False"
        THEN /\ v_log' = v_log \o in[1]
             /\ v_ret' = "no_urls"
             /\ v_session' = SessionAfter(in[1])
        ELSE \E out \in FetchOutcomes("search", "urls", "no_urls") :
             /\ v_log' = v_log \o in[1] \o out[1]
             /\ v_ret' = out[2]
             /\ v_session' = SessionAfter(in[1] \o out[1])
    /\ UNCHANGED <<v_pc, v_fallback, v_creds, v_browser, v_driver, v_quit,
                   v_init_calls, v_init_failed>>
    /\ UNCHANGED <<normVars, reqVars, pipeVars, runVars, searchVars, dateVars, appVars>>

ExtractNewsData ==
    /\ v_pc = "live"
    /\ Len(v_log) < MaxRequests
    /\ \E out \in DetailOutcomes :
        /\ v_log' = v_log \o out[1]
        /\ v_ret' = out[2]
        /\ v_session' = SessionAfter(out[1])
    /\ UNCHANGED <<v_pc, v_fallback, v_creds, v_browser, v_driver, v_quit,
                   v_init_calls, v_init_failed>>
    /\ UNCHANGED <<normVars, reqVars, pipeVars, runVars, searchVars, dateVars, appVars>>

\* close(): quits the driver when there is one; self.driver is left as it is.
Close ==
    /\ v_pc = "live"
    /\ v_quit' = (v_quit \/ HasDriver(v_driver))
    /\ v_ret' = None
    /\ UNCHANGED <<v_pc, v_fallback, v_creds, v_browser, v_driver, v_session,
                   v_init_calls, v_init_failed, v_log>>
    /\ UNCHANGED <<normVars, reqVars, pipeVars, runVars, searchVars, dateVars, appVars>>

ValNext == Construct \/ Login \/ SearchNews \/ ExtractNewsData \/ Close

-----------------------------------------------------------------------------
(* Properties of the ValorEconomicoScraper backends                        *)

\* C6: when _init_selenium failed in the constructor, every login, search and
\* detail request the instance sends afterwards goes through requests, and
\* _init_selenium has been called once and is never called again.
C6_FallbackAfterInitFailure ==
    v_init_failed =>
        /\ \A i \in 1..Len(v_log) : v_log[i].backend = "requests"
        /\ v_init_calls = 1
        /\ v_driver = None

\* C6 witness: after a failed initialization a login, a search and a detail
\* request have been sent.
C6_Witness ==
    /\ v_init_failed
    /\ \E i, j, k \in 1..Len(v_log) :
        /\ v_log[i].op = "login"
        /\ v_log[j].op = "search"
        /\ v_log[k].op = "detail"

\* The requests one call of extract_news_data adds to the log.
SentByStep == SubSeq(v_log', Len(v_log) + 1, Len(v_log'))

\* C13: when a fetched document shows the paywall, the scraper logs in again
\* on the backend that fetched the document and fetches the url again on that
\* backend exactly once; when the login fails the url gives no record and
\* nothing more is sent for it.
C13_ReauthOnFetchingBackend ==
    [][ (Len(SentByStep) > 0 /\ SentByStep[1].op = "detail") =>
          LET s == SentByStep
              relogins == {i \in 1..Len(s) : s[i].op = "relogin"}
              refetches == {i \in 1..Len(s) : s[i].op = "refetch"}
          IN  /\ \A i \in relogins \cup refetches : s[i].backend = s[1].backend
              /\ Cardinality(refetches) <= 1
              /\ \A i \in refetches : relogins # {} /\ i = Len(s)
              /\ (relogins # {} /\ refetches = {}) => v_ret' = None
      ]_vars

\* C14: the backend changes at most once, from selenium to requests, and only
\* because _init_selenium failed: an instance whose initialization succeeded
\* sends every login, search and detail request through selenium, and no
\* request through selenium follows one through requests.
C14_BackendChangesOnlyAtInit ==
    /\ HasDriver(v_driver) =>
           \A i \in 1..Len(v_log) : v_log[i].backend = "selenium"
    /\ \A i, j \in 1..Len(v_log) :
           (i < j /\ v_log[i].backend = "requests") => v_log[j].backend = "requests"

\* C29: a scraper constructed with use_requests_fallback=False sends no login,
\* search or detail request through requests, and when the browser can start
\* it has a driver and sends every request through it.
C29_NoRequestsWithoutFallback ==
    (~v_fallback /\ v_pc = "live") =>
        /\ \A i \in 1..Len(v_log) : v_log[i].backend # "requests"
        /\ v_browser => HasDriver(v_driver)

\* With use_requests_fallback=True requests is the fallback only: an instance
\* with a driver sends through requests only after the Selenium login raised.
C29_FallbackOnlyAfterSelenium ==
    (v_fallback /\ HasDriver(v_driver)) =>
        \A i \in 1..Len(v_log) :
            v_log[i].backend = "requests" =>
                /\ i > 1
                /\ v_log[i - 1].backend = "selenium"
                /\ v_log[i - 1].op = v_log[i].op

-----------------------------------------------------------------------------
(* run_scraper: search, one detail request per url, DataFrame, close       *)

MaxUrls == 3    \* most urls search_news returns

\* "fusoes": FusoesAquisicoesScraper (fusoes_aquisicoes_optimized.py), which
\* has no browser; "valor": ValorEconomicoScraper of
\* valor_economico_optimized.py; "valor_plain": that of valor_economico.py.
ScraperKinds == {"fusoes", "valor", "valor_plain"}

\* The browser the constructor leaves: none for requests only scrapers and
\* for a ValorEconomicoScraper whose _init_selenium failed.
DriversOf(kind) ==
    CASE kind = "fusoes" -> {"none"}
      [] kind = "valor" -> {"none", "live"}
      [] kind = "valor_plain" -> {"live"}

RunStart ==
    /\ rs_kind \in ScraperKinds
    /\ rs_driver \in DriversOf(rs_kind)
    /\ rs_urls = <<>>
    /\ rs_i = 1
    /\ rs_all_data = <<>>
    /\ rs_exhausted = {}
    /\ rs_pc = "idle"
    /\ rs_df = <<>>
    /\ rs_raised = "no"

RunIdle ==
    /\ rs_kind = "fusoes"
    /\ rs_driver = "none"
    /\ rs_urls = <<>>
    /\ rs_i = 1
    /\ rs_all_data = <<>>
    /\ rs_exhausted = {}
    /\ rs_pc = "off"
    /\ rs_df = <<>>
    /\ rs_raised = "no"

\* A close that leaves the browser running.
close_skipped(driver) == driver

\* close(): self.driver.quit() when there is a driver.
close(driver) == IF driver = "live" THEN "quit" ELSE driver

\* A loop that gives up the remaining urls when one url gives no record.
AbortAfterFailedUrl(i, urls) == Len(urls) + 1

\* for url in news_urls: a url without news_data is passed over and the loop
\* takes the next url.
AfterFailedUrl(i, urls) == i + 1

\* news_urls = self.search_news(query, days, max_pages)
SearchUrls ==
    /\ rs_pc = "idle"
    /\ \E n \in 0..MaxUrls : rs_urls' = [k \in 1..n |-> k]
    /\ rs_pc' = "loop"
    /\ UNCHANGED <<rs_kind, rs_driver, rs_i, rs_all_data, rs_exhausted, rs_df,
                   rs_raised>>
    /\ UNCHANGED <<normVars, reqVars, pipeVars, valVars, searchVars, dateVars, appVars>>

\* One iteration of the for loop: extract_news_data returns the record, or
\* None because _make_request used all its attempts (the response is None or
\* its status is not 200).
ExtractNext ==
    /\ rs_pc = "loop"
    /\ rs_i <= Len(rs_urls)
    /\ \/ /\ rs_all_data' = Append(rs_all_data, rs_urls[rs_i])
          /\ rs_i' = rs_i + 1
          /\ UNCHANGED rs_exhausted
       \/ /\ rs_exhausted' = rs_exhausted \cup {rs_urls[rs_i]}
          /\ rs_i' = AfterFailedUrl(rs_i, rs_urls)
          /\ UNCHANGED rs_all_data
    /\ UNCHANGED <<rs_kind, rs_driver, rs_urls, rs_pc, rs_df, rs_raised>>
    /\ UNCHANGED <<normVars, reqVars, pipeVars, valVars, searchVars, dateVars, appVars>>

\* The loop is over: the DataFrame of all_data is returned, and the finally
\* clause of the ValorEconomicoScraper closes the browser.
ReturnDataFrame ==
    /\ rs_pc = "loop"
    /\ rs_i > Len(rs_urls)
    /\ rs_df' = rs_all_data
    /\ rs_pc' = "returned"
    /\ rs_driver' = close(rs_driver)
    /\ UNCHANGED <<rs_kind, rs_urls, rs_i, rs_all_data, rs_exhausted, rs_raised>>
    /\ UNCHANGED <<normVars, reqVars, pipeVars, valVars, searchVars, dateVars, appVars>>

\* An exception that search_news or extract_news_data did not catch leaves
\* the try block: valor_economico_optimized.py logs it and returns an empty
\* DataFrame, the two other run_scraper let it pass; finally closes the
\* browser.
RunRaises ==
    /\ rs_pc \in {"idle", "loop"}
    /\ rs_raised' = IF rs_kind = "valor" THEN "caught" ELSE "propagated"
    /\ rs_df' = <<>>
    /\ rs_pc' = "returned"
    /\ rs_driver' = close(rs_driver)
    /\ UNCHANGED <<rs_kind, rs_urls, rs_i, rs_all_data, rs_exhausted>>
    /\ UNCHANGED <<normVars, reqVars, pipeVars, valVars, searchVars, dateVars, appVars>>

RunNext == SearchUrls \/ ExtractNext \/ ReturnDataFrame \/ RunRaises

-----------------------------------------------------------------------------
(* Properties of run_scraper                                               *)

\* The urls of news_urls that gave a record, in the order of news_urls.
RECURSIVE C21_Kept(_)
C21_Kept(urls) ==
    IF urls = <<>> THEN <<>>
    ELSE IF Head(urls) \in rs_exhausted THEN C21_Kept(Tail(urls))
    ELSE <<Head(urls)>> \o C21_Kept(Tail(urls))

\* C21: a url whose detail request used all its attempts gives no record; the
\* loop keeps the records it has and goes on with the next url, so that the
\* DataFrame returned holds the record of every other url of news_urls.
C21_FailedUrlSkipped ==
    /\ [](/\ \A k \in 1..Len(rs_all_data) : rs_all_data[k] \notin rs_exhausted
          /\ (rs_pc = "returned" /\ rs_raised = "no") =>
                /\ rs_i = Len(rs_urls) + 1
                /\ rs_df = C21_Kept(rs_urls))
    /\ [][rs_exhausted' # rs_exhausted =>
             /\ rs_all_data' = rs_all_data
             /\ rs_pc' = "loop"
             /\ rs_i' = rs_i + 1
             /\ rs_raised' = "no"]_vars

\* C21 witness: the second of three urls used all its attempts, and the
\* DataFrame returned holds the records of the first and of the third.
C21_Witness ==
    /\ rs_pc = "returned"
    /\ rs_exhausted = {2}
    /\ rs_df = <<1, 3>>


\* C30: when run_scraper of a ValorEconomicoScraper has returned, with
\* records, with an empty DataFrame or through an exception, the browser the
\* scraper had has been quit; a browser is quit by that return and by nothing
\* before it.
C30_BrowserQuitOnReturn ==
    /\ [](/\ rs_pc = "returned" => rs_driver # "live"
          /\ rs_pc \in {"idle", "loop"} => rs_driver \in DriversOf(rs_kind))
    /\ [][rs_driver' # rs_driver =>
             (rs_driver = "live" /\ rs_driver' = "quit" /\ rs_pc' = "returned")]_vars

\* C30 witness: a run_scraper that had a browser and collected a record ended
\* through an exception, and the browser is quit.
C30_Witness ==
    /\ rs_kind = "valor"
    /\ rs_pc = "returned"
    /\ rs_raised = "caught"
    /\ rs_all_data # <<>>
    /\ rs_driver = "quit"


-----------------------------------------------------------------------------
(* search_news: the scan of the result pages                               *)

MaxPages == 2   \* largest max_pages, and the number of result pages of the site

MaxItems == 2   \* most items on a result page

\* "pipeline": PipelineValorScraper.search_news; "valor":
\* ValorEconomicoScraper._search_news_selenium; "fusoes": the scan of the home
\* page in search_news of fusoes_aquisicoes_optimized.py; "fusoes_plain": the
\* scan of the news section in search_news of fusoes_aquisicoes.py.
SearchAdapters == {"pipeline", "valor", "fusoes", "fusoes_plain"}

\* An item of a result page: "new" has a date inside the window and a link,
\* "old" has a date before date_limit, "nodate" has no date element or a date
\* text the pattern does not match.
ItemKinds == {"new", "old", "nodate"}

ItemLists == UNION { [1..n -> ItemKinds] : n \in 0..MaxItems }

\* for page in range(1, max_pages + 1); the optimized fusoes scraper reads
\* the home page only.
PagesOf(adapter, max_pages) == IF adapter = "fusoes" THEN 1 ELSE max_pages

\* if pub_date < date_limit: break, in every scan but that of the optimized
\* fusoes scraper, which has continue in this place.
StopsAtOld(adapter) == adapter # "fusoes"

\* What a Google search of the site can list: items inside and outside the
\* window; the result page shows no publication date.
GoogleLists == UNION { [1..n -> {"new", "old"}] : n \in 0..MaxItems }

\* for result in soup.select('div.g'): every link into the site is appended.
GoogleResults(results) == 1..Len(results)

SearchStart ==
    /\ sn_adapter \in SearchAdapters
    /\ sn_google \in (IF sn_adapter = "fusoes" THEN GoogleLists ELSE {<<>>})
    /\ sn_site \in [1..MaxPages -> ItemLists]
    /\ sn_max_pages \in 1..MaxPages
    /\ sn_page = 0
    /\ sn_urls = <<>>
    /\ sn_pub_date = "unbound"
    /\ sn_pc = "scan"
    /\ sn_stop = "no"

SearchIdle ==
    /\ sn_adapter = "pipeline"
    /\ sn_site = <<>>
    /\ sn_max_pages = 0
    /\ sn_page = 0
    /\ sn_urls = <<>>
    /\ sn_pub_date = "unbound"
    /\ sn_pc = "off"
    /\ sn_stop = "no"
    /\ sn_google = <<>>

\* for item in news_items, from item k on: an item without date is passed
\* over; a dated item sets pub_date; an old one ends the loop (or is passed
\* over, when stops is FALSE); a new one is appended. The result is the
\* positions appended and the last value of pub_date.
RECURSIVE ScanItems(_, _, _, _)
ScanItems(items, k, pub, stops) ==
    IF k > Len(items) THEN [added |-> <<>>, pub |-> pub]
    ELSE CASE items[k] = "nodate" -> ScanItems(items, k + 1, pub, stops)
           [] items[k] = "old" ->
                IF stops THEN [added |-> <<>>, pub |-> "old"]
                ELSE ScanItems(items, k + 1, "old", stops)
           [] items[k] = "new" ->
                LET rest == ScanItems(items, k + 1, "new", stops)
                IN  [added |-> <<k>> \o rest.added, pub |-> rest.pub]

\* pub_date as the scan of a page finds it: _search_news_selenium sets
\* pub_date = None before the item loop, the other scans leave the variable
\* as the page before left it, unbound on the first page.
PubDateBefore(adapter, pub) == IF adapter = "valor" THEN "none" ELSE pub

\* What follows the item loop. if pub_date < date_limit: break raises
\* UnboundLocalError when no item has bound pub_date; the handler around it
\* ends the paging. _search_news_selenium tests pub_date first.
AfterPage(adapter, pub, page, max_pages) ==
    IF adapter = "fusoes" THEN "max"
    ELSE IF pub = "unbound" THEN "error"
    ELSE IF pub = "old" THEN "limit"
    ELSE IF page = max_pages THEN "max"
    ELSE "no"

\* One iteration of the page loop: the page is fetched and scanned.
ScanPage ==
    /\ sn_pc = "scan"
    /\ sn_page < PagesOf(sn_adapter, sn_max_pages)
    /\ LET page == sn_page + 1
           items == sn_site[page]
           found == ScanItems(items, 1, PubDateBefore(sn_adapter, sn_pub_date),
                              StopsAtOld(sn_adapter))
           stop == IF items = <<>> THEN "empty"
                   ELSE AfterPage(sn_adapter, found.pub, page, sn_max_pages)
       IN  /\ sn_page' = page
           /\ sn_urls' = IF items = <<>> THEN sn_urls
                         ELSE sn_urls \o [j \in 1..Len(found.added) |->
                                              <<page, found.added[j]>>]
           /\ sn_pub_date' = IF items = <<>> THEN sn_pub_date ELSE found.pub
           /\ sn_stop' = stop
           /\ sn_pc' = IF stop = "no" THEN "scan"
                       ELSE IF sn_adapter = "fusoes" THEN "google"
                       ELSE "done"
    /\ UNCHANGED <<sn_adapter, sn_site, sn_max_pages, sn_google>>
    /\ UNCHANGED <<normVars, reqVars, pipeVars, valVars, runVars, dateVars, appVars>>

\* The rows of results at the increasing positions of keep, as
\* <<0, position>>: page 0 is the Google result page.
RECURSIVE GoogleUrls(_, _, _)
GoogleUrls(results, keep, j) ==
    IF j > Len(results) THEN <<>>
    ELSE IF j \in keep THEN << <<0, j>> >> \o GoogleUrls(results, keep, j + 1)
    ELSE GoogleUrls(results, keep, j + 1)

\* if not all_news_urls: the optimized fusoes scraper asks Google for the
\* pages of the site; answered is FALSE when the request fails or raises.
GoogleFallback ==
    /\ sn_pc = "google"
    /\ IF sn_urls # <<>>
       THEN UNCHANGED sn_urls
       ELSE \E answered \in BOOLEAN :
               sn_urls' = IF answered
                          THEN GoogleUrls(sn_google, GoogleResults(sn_google), 1)
                          ELSE <<>>
    /\ sn_pc' = "done"
    /\ UNCHANGED <<sn_adapter, sn_site, sn_max_pages, sn_page, sn_pub_date, sn_stop,
                   sn_google>>
    /\ UNCHANGED <<normVars, reqVars, pipeVars, valVars, runVars, dateVars, appVars>>

SearchNext == ScanPage \/ GoogleFallback

-----------------------------------------------------------------------------
(* Properties of search_news                                               *)

\* C22: the scan of a page stops at the first item older than the window: no
\* later item of that page is in the result and no further page is fetched.
C22_StopsAtFirstOld ==
    \A p \in 1..sn_page :
        \A i \in 1..Len(sn_site[p]) :
            sn_site[p][i] = "old" =>
                /\ \A k \in 1..Len(sn_urls) :
                      ~(sn_urls[k][1] = p /\ sn_urls[k][2] > i)
                /\ sn_page = p

\* The page has items and none of them bears a date.
C28_Undated(items) ==
    /\ items # <<>>
    /\ \A i \in 1..Len(items) : items[i] = "nodate"

\* C28: a page on which no item bears a date raises nothing and does not end
\* the search: the search ends after such a page only when it was the last
\* page allowed.
C28_UndatedPageGoesOn ==
    /\ sn_stop # "error"
    /\ (sn_pc = "done" /\ sn_page >= 1 /\ C28_Undated(sn_site[sn_page]))
          => sn_page = PagesOf(sn_adapter, sn_max_pages)


-----------------------------------------------------------------------------
(* standardize_date on the long form "D de <month> de YYYY"                *)

\* The day, month name and year texts tried: the 12 names of month_map, a
\* capitalized one, an abbreviation and a name written without cedilla.
DayTexts == { <<"2">>, <<"1", "5">> }

YearTexts == { <<"2", "0", "2", "3">>, <<"2", "0", "2", "4">> }

MonthTexts ==
    { month_map[i] : i \in 1..12 }
        \cup { <<"J", "a", "n", "e", "i", "r", "o">>,
               <<"j", "a", "n">>,
               <<"m", "a", "r", "c", "o">>,
               <<"s", "e", "p", "t">> }

\* The date text of an article dated day de month de year.
LongForm(day, month, year) == day \o DeSep \o month \o DeSep \o year

DateStart ==
    /\ d_day \in DayTexts
    /\ d_month \in MonthTexts
    /\ d_year \in YearTexts
    /\ d_out = <<>>

DateIdle ==
    /\ d_day = <<>>
    /\ d_month = <<>>
    /\ d_year = <<>>
    /\ d_out = <<"off">>

\* clean_df['date'].apply(standardize_date) on one date text.
StandardizeOne ==
    /\ d_out = <<>>
    /\ d_out' = <<standardize_date(LongForm(d_day, d_month, d_year))>>
    /\ UNCHANGED <<d_day, d_month, d_year>>
    /\ UNCHANGED <<normVars, reqVars, pipeVars, valVars, runVars, searchVars, appVars>>

DateNext == StandardizeOne

-----------------------------------------------------------------------------
(* The web application: run_scheduled_extraction, the /run-extraction      *)
(* route with its extraction_thread, the history and the index page        *)

MaxTriggers == 3    \* scheduled triggers and /run-extraction requests in one behaviour

\* The threads that can be in the extraction code at once: request threads of
\* the server and the threads of schedule_thread (setup_schedule starts one
\* more at every /save-config).
Threads == {"t1", "t2"}

TriggerKinds == {"sched", "manual"}

\* A thread between extraction_in_progress = True and the end of its
\* function or of its extraction_thread.
StartedPcs == {"try", "run", "append", "save", "finally"}

\* init_app has loaded the history file: no entry yet, or the entry of an
\* extraction of an earlier run of the application (id 9).
AppStart ==
    /\ a_pc = [t \in Threads |-> "idle"]
    /\ a_kind = [t \in Threads |-> "sched"]
    /\ a_in_progress = FALSE
    /\ a_file \in { <<>>, <<9>> }
    /\ a_history = a_file
    /\ a_rec = [t \in Threads |-> 0]
    /\ a_triggers = 0
    /\ a_completed = {}
    /\ a_ends = {}
    /\ a_loads = FALSE

AppIdle ==
    /\ a_pc = [t \in Threads |-> "off"]
    /\ a_kind = [t \in Threads |-> "sched"]
    /\ a_in_progress = FALSE
    /\ a_file = <<>>
    /\ a_history = <<>>
    /\ a_rec = [t \in Threads |-> 0]
    /\ a_triggers = 0
    /\ a_completed = {}
    /\ a_ends = {}
    /\ a_loads = FALSE

\* if extraction_in_progress: return. The scheduler fires or a request
\* arrives on thread t, which reads the flag: set, nothing is started; not
\* set, the thread goes on to the assignment.
CheckInProgress(t) ==
    /\ a_pc[t] = "idle"
    /\ a_triggers < MaxTriggers
    /\ a_triggers' = a_triggers + 1
    /\ \E kind \in TriggerKinds : a_kind' = [a_kind EXCEPT ![t] = kind]
    /\ a_pc' = [a_pc EXCEPT ![t] = IF a_in_progress THEN "idle" ELSE "set"]
    /\ a_ends' = IF a_in_progress THEN a_ends \cup {"rejected"} ELSE a_ends
    /\ UNCHANGED <<a_in_progress, a_history, a_file, a_rec, a_completed, a_loads>>
    /\ UNCHANGED <<normVars, reqVars, pipeVars, valVars, runVars, searchVars, dateVars>>

\* extraction_in_progress = True
SetInProgress(t) ==
    /\ a_pc[t] = "set"
    /\ a_in_progress' = TRUE
    /\ a_pc' = [a_pc EXCEPT ![t] = "try"]
    /\ UNCHANGED <<a_kind, a_history, a_file, a_rec, a_triggers, a_completed, a_ends,
                   a_loads>>
    /\ UNCHANGED <<normVars, reqVars, pipeVars, valVars, runVars, searchVars, dateVars>>

\* An except branch that leaves the flag as it is.
FlagKeptOnError(flag) == flag

\* except Exception: extraction_in_progress = False, in the route, and the
\* same assignment where the scheduled run finds the schedule disabled.
FlagOnError(flag) == FALSE

\* The scheduled run reads the configuration: disabled, it clears the flag
\* and returns through finally; enabled, it calls run_extraction.
BeginScheduled(t) ==
    /\ a_pc[t] = "try"
    /\ a_kind[t] = "sched"
    /\ \E enabled \in BOOLEAN :
        IF enabled
        THEN /\ a_pc' = [a_pc EXCEPT ![t] = "run"]
             /\ UNCHANGED <<a_in_progress, a_ends>>
        ELSE /\ a_in_progress' = FlagOnError(a_in_progress)
             /\ a_pc' = [a_pc EXCEPT ![t] = "finally"]
             /\ a_ends' = a_ends \cup {"disabled"}
    /\ UNCHANGED <<a_kind, a_history, a_file, a_rec, a_triggers, a_completed, a_loads>>
    /\ UNCHANGED <<normVars, reqVars, pipeVars, valVars, runVars, searchVars, dateVars>>

\* The route reads the form: int() of a field that is no number raises, the
\* handler clears the flag and answers with the error; with valid fields
\* extraction_thread is started and the route answers.
BeginManual(t) ==
    /\ a_pc[t] = "try"
    /\ a_kind[t] = "manual"
    /\ \E valid \in BOOLEAN :
        IF valid
        THEN /\ a_pc' = [a_pc EXCEPT ![t] = "run"]
             /\ UNCHANGED <<a_in_progress, a_ends>>
        ELSE /\ a_in_progress' = FlagOnError(a_in_progress)
             /\ a_pc' = [a_pc EXCEPT ![t] = "idle"]
             /\ a_ends' = a_ends \cup {"invalid"}
    /\ UNCHANGED <<a_kind, a_history, a_file, a_rec, a_triggers, a_completed, a_loads>>
    /\ UNCHANGED <<normVars, reqVars, pipeVars, valVars, runVars, searchVars, dateVars>>

\* extractor.run_extraction returns a file path or None, or raises. With a
\* file path the history entry is built (its id is the number of the trigger
\* that started the extraction).
EndExtraction(t) ==
    /\ a_pc[t] = "run"
    /\ \E out \in {"file", "none", "exception"} :
        /\ a_pc' = [a_pc EXCEPT ![t] = IF out = "file" THEN "append" ELSE "finally"]
        /\ a_rec' = [a_rec EXCEPT ![t] = IF out = "file" THEN a_triggers ELSE 0]
        /\ a_ends' = a_ends \cup (IF out = "file" THEN {}
                                  ELSE IF out = "none" THEN {"failed"}
                                  ELSE {"exception"})
    /\ UNCHANGED <<a_kind, a_in_progress, a_history, a_file, a_triggers, a_completed,
                   a_loads>>
    /\ UNCHANGED <<normVars, reqVars, pipeVars, valVars, runVars, searchVars, dateVars>>

\* extraction_history.append(extraction_record)
AppendHistory(t) ==
    /\ a_pc[t] = "append"
    /\ a_history' = Append(a_history, a_rec[t])
    /\ a_pc' = [a_pc EXCEPT ![t] = "save"]
    /\ UNCHANGED <<a_kind, a_in_progress, a_file, a_rec, a_triggers, a_completed,
                   a_ends, a_loads>>
    /\ UNCHANGED <<normVars, reqVars, pipeVars, valVars, runVars, searchVars, dateVars>>

\* save_extraction_history(): json.dump of the global extraction_history.
save_extraction_history(t) ==
    /\ a_pc[t] = "save"
    /\ a_file' = a_history
    /\ a_pc' = [a_pc EXCEPT ![t] = "finally"]
    /\ a_ends' = a_ends \cup {"success"}
    /\ UNCHANGED <<a_kind, a_in_progress, a_history, a_rec, a_triggers, a_completed,
                   a_loads>>
    /\ UNCHANGED <<normVars, reqVars, pipeVars, valVars, runVars, searchVars, dateVars>>

\* finally: extraction_in_progress = False
Finally(t) ==
    /\ a_pc[t] = "finally"
    /\ a_in_progress' = FALSE
    /\ a_pc' = [a_pc EXCEPT ![t] = "idle"]
    /\ a_completed' = IF a_rec[t] = 0 THEN a_completed ELSE a_completed \cup {a_rec[t]}
    /\ a_rec' = [a_rec EXCEPT ![t] = 0]
    /\ UNCHANGED <<a_kind, a_history, a_file, a_triggers, a_ends, a_loads>>
    /\ UNCHANGED <<normVars, reqVars, pipeVars, valVars, runVars, searchVars, dateVars>>

\* index(): load_extraction_history() binds extraction_history to the list
\* read from the history file.
load_extraction_history ==
    /\ \E t \in Threads : a_pc[t] # "off"
    /\ a_history' = a_file
    /\ a_loads' = TRUE
    /\ UNCHANGED <<a_pc, a_kind, a_in_progress, a_file, a_rec, a_triggers, a_completed,
                   a_ends>>
    /\ UNCHANGED <<normVars, reqVars, pipeVars, valVars, runVars, searchVars, dateVars>>

AppNext ==
    \/ \E t \in Threads :
          \/ CheckInProgress(t) \/ SetInProgress(t) \/ BeginScheduled(t)
          \/ BeginManual(t) \/ EndExtraction(t) \/ AppendHistory(t)
          \/ save_extraction_history(t) \/ Finally(t)
    \/ load_extraction_history

-----------------------------------------------------------------------------
(* Further properties of the normalizer                                    *)

\* C31: normalization drops only duplicates: the urls of the batch
\* clean_and_structure_data returns are the urls of the list it was given,
\* the records without a recognized date included.
C31_UrlsKept ==
    /\ [](n_calls >= 1 => UrlsOf(n_df) = UrlsOf(n_raw))
    /\ [][n_calls' # n_calls => UrlsOf(n_df') = UrlsOf(n_df)]_vars

\* C31 witness: a list with a record whose date text is in no known form and
\* a record without date text has been normalized, and both are in the batch.
C31_Witness ==
    /\ n_calls >= 1
    /\ Len(n_raw) = 2
    /\ Len(n_df) = 2
    /\ \E i, j \in 1..Len(n_df) :
        /\ n_df[i].date = NotADate
        /\ n_df[j].date = DataNaoEncontrada
        /\ n_df[j].date_standardized = None

\* C33: clean_and_structure_data leaves the list it is given as it was: same
\* records, same order, same field values; what it did shows only in the
\* batch it returns.
C33_ArgumentUnchanged ==
    /\ [](n_calls = 1 => n_arg = n_raw)
    /\ [][n_calls' # n_calls => n_arg' = n_df]_vars

\* C33 witness: a call that dropped a duplicate, filled a field and set the
\* normalized date returned a batch that differs from the list it was given.
C33_Witness ==
    /\ n_calls = 1
    /\ n_arg = n_raw
    /\ Len(n_raw) = 2
    /\ Len(n_df) = 1
    /\ n_df[1].buyer = NaoInformado
    /\ n_raw[1].buyer = None
    /\ n_df[1].date_standardized # n_raw[1].date_standardized

\* The month name is one of the 12 entries of the month table, in any case.
C32_InTable(name) == \E i \in 1..12 : month_map[i] = Lower(name)

\* C32: a long-form date whose month name is not in the month table gets a
\* null normalized date, never a date in a default month.
C32_UnknownMonthIsNull ==
    (d_out # <<>> /\ d_out # <<"off">> /\ ~C32_InTable(d_month)) => d_out = <<None>>

\* A long-form date whose month name is in the table gets the date of that
\* month.
C32_KnownMonth ==
    (d_out # <<>> /\ d_out # <<"off">> /\ C32_InTable(d_month)) =>
        d_out = <<ZFill2(d_day) \o <<"/">> \o MonthMapGet(Lower(d_month))
                    \o <<"/">> \o d_year>>

-----------------------------------------------------------------------------
(* Further properties of the orchestrator                                  *)

\* The merged list run_all_sequential returns for what the adapters of the
\* last cycle produced.
C34_SequentialMerge ==
    Concat([i \in 1..3 |-> TagSource(px_produced[AdapterOrder[i]], AdapterOrder[i])])

\* C34: the merged list of a cycle is the one run_all_sequential returns for
\* the same adapter outputs, in parallel mode too and whatever the order the
\* workers finish in.
C34_ModeIndependentMerge ==
    (px_pc = "done" /\ px_batch # <<>>) => px_merged = C34_SequentialMerge

\* The same for the sequential mode and for MAExtractor.run_all_parallel.
C34_InOrderCollection ==
    (px_pc = "done" /\ px_batch # <<>> /\ (~px_parallel \/ px_entry = "app"))
        => px_merged = C34_SequentialMerge

-----------------------------------------------------------------------------
(* Further properties of search_news                                       *)

\* The item a url of the result belongs to: "new" or "old" by its true date
\* for a Google result, the kind of the item for a result page of the site.
C35_ItemOf(url) == IF url[1] = 0 THEN sn_google[url[2]] ELSE sn_site[url[1]][url[2]]

\* C35: every url search_news returns belongs to an item of a page of the
\* site whose date was read and found inside the window.
C35_EveryUrlDateChecked ==
    \A k \in 1..Len(sn_urls) :
        /\ sn_urls[k][1] >= 1
        /\ C35_ItemOf(sn_urls[k]) = "new"

\* The same for the scans of the result pages of the site.
C35_SitePagesDateChecked ==
    \A k \in 1..Len(sn_urls) :
        sn_urls[k][1] >= 1 => sn_site[sn_urls[k][1]][sn_urls[k][2]] = "new"

-----------------------------------------------------------------------------
(* Further properties of the ValorEconomicoScraper backends                *)

\* C36: extract_news_data returns no record built from a document that shows
\* the paywall: when the document fetched again after the login is walled
\* still, the url gives no record.
C36_NoRecordFromWalledDocument == v_ret # walled_record

\* A record comes from the first document only when that document did not
\* show the paywall: a first document with the marker always starts a login.
C36_FirstDocumentChecked ==
    [][ (Len(SentByStep) = 1 /\ SentByStep[1].op = "detail")
            => v_ret' \in {"record", None} ]_vars

-----------------------------------------------------------------------------
(* Properties of the web application                                       *)

\* The threads that are executing extractor.run_extraction.
C37_Running == {t \in Threads : a_pc[t] = "run"}

\* C37: at most one extraction is executing at any time, and a trigger that
\* arrives while one is executing starts no extractor run.
C37_OneExtractionAtATime ==
    /\ [](Cardinality(C37_Running) <= 1)
    /\ [][\A t \in Threads :
            (a_pc[t] # "run" /\ a_pc'[t] = "run") => C37_Running = {}]_vars

\* A trigger that finds the flag set starts nothing.
C37_RejectedWhenFlagSet ==
    [][\A t \in Threads :
          (a_pc[t] = "idle" /\ a_in_progress /\ a_triggers' # a_triggers)
              => a_pc'[t] \in {"idle"}]_vars

\* C38: when a started extraction ends, by whichever way, the flag is false,
\* and the flag is true only while some started extraction has not ended.
C38_FlagClearedAtEnd ==
    /\ [](a_in_progress => \E t \in Threads : a_pc[t] \in StartedPcs)
    /\ [][\A t \in Threads :
            (a_pc[t] \in StartedPcs /\ a_pc'[t] = "idle") => ~a_in_progress']_vars

\* C38 witness: extractions have ended because the schedule was disabled,
\* because the form was invalid and by an exception, no thread is in the
\* extraction code and the flag is false.
C38_Witness ==
    /\ {"disabled", "invalid", "exception"} \subseteq a_ends
    /\ \A t \in Threads : a_pc[t] = "idle"
    /\ ~a_in_progress

\* The entries of a history list.
C39_Entries(h) == { h[i] : i \in 1..Len(h) }

\* C39: the entry of every extraction that produced a file and ended is in
\* the history file and in extraction_history, whatever index page loads and
\* other extractions went on meanwhile.
C39_NoEntryLost ==
    /\ a_completed \subseteq C39_Entries(a_file)
    /\ a_completed \subseteq C39_Entries(a_history)

\* The same as long as no index page has been loaded.
C39_NoLossWithoutIndexLoad == ~a_loads => C39_NoEntryLost

-----------------------------------------------------------------------------
(* Specifications                                                          *)

InitNormalizer == NormStart /\ ReqIdle /\ PipeIdle /\ ValIdle /\ RunIdle /\ SearchIdle
    /\ DateIdle /\ AppIdle

InitRequest == ReqStart /\ NormIdle /\ PipeIdle /\ ValIdle /\ RunIdle /\ SearchIdle
    /\ DateIdle /\ AppIdle

InitPipeline == PipeStart /\ NormIdle /\ ReqIdle /\ ValIdle /\ RunIdle /\ SearchIdle
    /\ DateIdle /\ AppIdle

InitValor == ValStart /\ NormIdle /\ ReqIdle /\ PipeIdle /\ RunIdle /\ SearchIdle
    /\ DateIdle /\ AppIdle

SpecNormalizer == InitNormalizer /\ [][NormNext]_vars

SpecRequest == InitRequest /\ [][ReqNext]_vars

SpecPipeline == InitPipeline /\ [][PipeNext]_vars

SpecValor == InitValor /\ [][ValNext]_vars

InitRun == RunStart /\ NormIdle /\ ReqIdle /\ PipeIdle /\ ValIdle /\ SearchIdle
    /\ DateIdle /\ AppIdle

SpecRun == InitRun /\ [][RunNext]_vars

InitSearch == SearchStart /\ NormIdle /\ ReqIdle /\ PipeIdle /\ ValIdle /\ RunIdle
    /\ DateIdle /\ AppIdle

SpecSearch == InitSearch /\ [][SearchNext]_vars

InitDate ==
    DateStart /\ NormIdle /\ ReqIdle /\ PipeIdle /\ ValIdle /\ RunIdle /\ SearchIdle
    /\ AppIdle

SpecDate == InitDate /\ [][DateNext]_vars

InitApp ==
    AppStart /\ NormIdle /\ ReqIdle /\ PipeIdle /\ ValIdle /\ RunIdle /\ SearchIdle
    /\ DateIdle

SpecApp == InitApp /\ [][AppNext]_vars

Init ==
    \/ InitNormalizer \/ InitRequest \/ InitPipeline \/ InitValor \/ InitRun
    \/ InitSearch \/ InitDate \/ InitApp

Next ==
    \/ NormNext \/ ReqNext \/ PipeNext \/ ValNext \/ RunNext \/ SearchNext
    \/ DateNext \/ AppNext

Spec == Init /\ [][Next]_vars

====
